---- MODULE Spec2Model ----
(***************************************************************************)
(* Model of the concurrent multi-source search engine of                   *)
(* src/lncrawl/core/novel_search.py: the per-site task _search_a_site, the *)
(* dispatcher and the result combination of search_novels.                 *)
(*                                                                         *)
(* Text (titles, urls, the query, slugs) is a sequence of code points, so   *)
(* that lower(), title(), slugify() and the SequenceMatcher ratio are      *)
(* computed character by character as the code computes them.              *)
(***************************************************************************)
EXTENDS Integers, Sequences, FiniteSets, TLC

\* ------------------------------------------------------------------ text

\* a character is its code point, which is what orders Python's str comparison
Ord(c) == c
Dash == 45

\* a list given element by element, as the list value
List(f) == SubSeq(f, 1, Len(f))

\* ''.join(parts)
RECURSIVE Concat(_)
Concat(ss) == IF ss = <<>> THEN <<>> ELSE Head(ss) \o Concat(Tail(ss))

\* The character tables of the interpreter (CPython 3.11, Unicode 14.0.0) above
\* ASCII, as inclusive ranges <<first, last>> of code points.
InRanges(c, ranges) == \E r \in ranges : r[1] <= c /\ c <= r[2]

\* the cased characters: the ones after which str.title() lower-cases
CasedRanges ==
  {<<170, 170>>, <<181, 181>>, <<186, 186>>, <<192, 214>>, <<216, 246>>,
   <<248, 442>>, <<444, 447>>, <<452, 659>>, <<661, 696>>, <<704, 705>>,
   <<736, 740>>, <<837, 837>>, <<880, 883>>, <<886, 887>>, <<890, 893>>,
   <<895, 895>>, <<902, 902>>, <<904, 906>>, <<908, 908>>, <<910, 929>>,
   <<931, 1013>>, <<1015, 1153>>, <<1162, 1327>>, <<1329, 1366>>, <<1376, 1416>>,
   <<4256, 4293>>, <<4295, 4295>>, <<4301, 4301>>, <<4304, 4346>>, <<4349, 4351>>,
   <<5024, 5109>>, <<5112, 5117>>, <<7296, 7304>>, <<7312, 7354>>, <<7357, 7359>>,
   <<7424, 7615>>, <<7680, 7957>>, <<7960, 7965>>, <<7968, 8005>>, <<8008, 8013>>,
   <<8016, 8023>>, <<8025, 8025>>, <<8027, 8027>>, <<8029, 8029>>, <<8031, 8061>>,
   <<8064, 8116>>, <<8118, 8124>>, <<8126, 8126>>, <<8130, 8132>>, <<8134, 8140>>,
   <<8144, 8147>>, <<8150, 8155>>, <<8160, 8172>>, <<8178, 8180>>, <<8182, 8188>>,
   <<8305, 8305>>, <<8319, 8319>>, <<8336, 8348>>, <<8450, 8450>>, <<8455, 8455>>,
   <<8458, 8467>>, <<8469, 8469>>, <<8473, 8477>>, <<8484, 8484>>, <<8486, 8486>>,
   <<8488, 8488>>, <<8490, 8493>>, <<8495, 8500>>, <<8505, 8505>>, <<8508, 8511>>,
   <<8517, 8521>>, <<8526, 8526>>, <<8544, 8575>>, <<8579, 8580>>, <<9398, 9449>>,
   <<11264, 11492>>, <<11499, 11502>>, <<11506, 11507>>, <<11520, 11557>>,
   <<11559, 11559>>, <<11565, 11565>>, <<42560, 42605>>, <<42624, 42653>>,
   <<42786, 42887>>, <<42891, 42894>>, <<42896, 42954>>, <<42960, 42961>>,
   <<42963, 42963>>, <<42965, 42969>>, <<42997, 42998>>, <<43000, 43002>>,
   <<43824, 43866>>, <<43868, 43880>>, <<43888, 43967>>, <<64256, 64262>>,
   <<64275, 64279>>, <<65313, 65338>>, <<65345, 65370>>, <<66560, 66639>>,
   <<66736, 66771>>, <<66776, 66811>>, <<66928, 66938>>, <<66940, 66954>>,
   <<66956, 66962>>, <<66964, 66965>>, <<66967, 66977>>, <<66979, 66993>>,
   <<66995, 67001>>, <<67003, 67004>>, <<67456, 67456>>, <<67459, 67461>>,
   <<67463, 67504>>, <<67506, 67514>>, <<68736, 68786>>, <<68800, 68850>>,
   <<71840, 71903>>, <<93760, 93823>>, <<119808, 119892>>, <<119894, 119964>>,
   <<119966, 119967>>, <<119970, 119970>>, <<119973, 119974>>, <<119977, 119980>>,
   <<119982, 119993>>, <<119995, 119995>>, <<119997, 120003>>, <<120005, 120069>>,
   <<120071, 120074>>, <<120077, 120084>>, <<120086, 120092>>, <<120094, 120121>>,
   <<120123, 120126>>, <<120128, 120132>>, <<120134, 120134>>, <<120138, 120144>>,
   <<120146, 120485>>, <<120488, 120512>>, <<120514, 120538>>, <<120540, 120570>>,
   <<120572, 120596>>, <<120598, 120628>>, <<120630, 120654>>, <<120656, 120686>>,
   <<120688, 120712>>, <<120714, 120744>>, <<120746, 120770>>, <<120772, 120779>>,
   <<122624, 122633>>, <<122635, 122654>>, <<125184, 125251>>, <<127280, 127305>>,
   <<127312, 127337>>, <<127344, 127369>>}

\* the case-ignorable characters, which str.lower() skips around a capital
\* sigma (ASCII ' . : ^ ` included)
CaseIgnorableRanges ==
  {<<39, 39>>, <<46, 46>>, <<58, 58>>, <<94, 94>>, <<96, 96>>, <<168, 168>>,
   <<173, 173>>, <<175, 175>>, <<180, 180>>, <<183, 184>>, <<688, 879>>,
   <<884, 885>>, <<890, 890>>, <<900, 901>>, <<903, 903>>, <<1155, 1161>>,
   <<1369, 1369>>, <<1375, 1375>>, <<1425, 1469>>, <<1471, 1471>>, <<1473, 1474>>,
   <<1476, 1477>>, <<1479, 1479>>, <<1524, 1524>>, <<1536, 1541>>, <<1552, 1562>>,
   <<1564, 1564>>, <<1600, 1600>>, <<1611, 1631>>, <<1648, 1648>>, <<1750, 1757>>,
   <<1759, 1768>>, <<1770, 1773>>, <<1807, 1807>>, <<1809, 1809>>, <<1840, 1866>>,
   <<1958, 1968>>, <<2027, 2037>>, <<2042, 2042>>, <<2045, 2045>>, <<2070, 2093>>,
   <<2137, 2139>>, <<2184, 2184>>, <<2192, 2193>>, <<2200, 2207>>, <<2249, 2306>>,
   <<2362, 2362>>, <<2364, 2364>>, <<2369, 2376>>, <<2381, 2381>>, <<2385, 2391>>,
   <<2402, 2403>>, <<2417, 2417>>, <<2433, 2433>>, <<2492, 2492>>, <<2497, 2500>>,
   <<2509, 2509>>, <<2530, 2531>>, <<2558, 2558>>, <<2561, 2562>>, <<2620, 2620>>,
   <<2625, 2626>>, <<2631, 2632>>, <<2635, 2637>>, <<2641, 2641>>, <<2672, 2673>>,
   <<2677, 2677>>, <<2689, 2690>>, <<2748, 2748>>, <<2753, 2757>>, <<2759, 2760>>,
   <<2765, 2765>>, <<2786, 2787>>, <<2810, 2815>>, <<2817, 2817>>, <<2876, 2876>>,
   <<2879, 2879>>, <<2881, 2884>>, <<2893, 2893>>, <<2901, 2902>>, <<2914, 2915>>,
   <<2946, 2946>>, <<3008, 3008>>, <<3021, 3021>>, <<3072, 3072>>, <<3076, 3076>>,
   <<3132, 3132>>, <<3134, 3136>>, <<3142, 3144>>, <<3146, 3149>>, <<3157, 3158>>,
   <<3170, 3171>>, <<3201, 3201>>, <<3260, 3260>>, <<3263, 3263>>, <<3270, 3270>>,
   <<3276, 3277>>, <<3298, 3299>>, <<3328, 3329>>, <<3387, 3388>>, <<3393, 3396>>,
   <<3405, 3405>>, <<3426, 3427>>, <<3457, 3457>>, <<3530, 3530>>, <<3538, 3540>>,
   <<3542, 3542>>, <<3633, 3633>>, <<3636, 3642>>, <<3654, 3662>>, <<3761, 3761>>,
   <<3764, 3772>>, <<3782, 3782>>, <<3784, 3789>>, <<3864, 3865>>, <<3893, 3893>>,
   <<3895, 3895>>, <<3897, 3897>>, <<3953, 3966>>, <<3968, 3972>>, <<3974, 3975>>,
   <<3981, 3991>>, <<3993, 4028>>, <<4038, 4038>>, <<4141, 4144>>, <<4146, 4151>>,
   <<4153, 4154>>, <<4157, 4158>>, <<4184, 4185>>, <<4190, 4192>>, <<4209, 4212>>,
   <<4226, 4226>>, <<4229, 4230>>, <<4237, 4237>>, <<4253, 4253>>, <<4348, 4348>>,
   <<4957, 4959>>, <<5906, 5908>>, <<5938, 5939>>, <<5970, 5971>>, <<6002, 6003>>,
   <<6068, 6069>>, <<6071, 6077>>, <<6086, 6086>>, <<6089, 6099>>, <<6103, 6103>>,
   <<6109, 6109>>, <<6155, 6159>>, <<6211, 6211>>, <<6277, 6278>>, <<6313, 6313>>,
   <<6432, 6434>>, <<6439, 6440>>, <<6450, 6450>>, <<6457, 6459>>, <<6679, 6680>>,
   <<6683, 6683>>, <<6742, 6742>>, <<6744, 6750>>, <<6752, 6752>>, <<6754, 6754>>,
   <<6757, 6764>>, <<6771, 6780>>, <<6783, 6783>>, <<6823, 6823>>, <<6832, 6862>>,
   <<6912, 6915>>, <<6964, 6964>>, <<6966, 6970>>, <<6972, 6972>>, <<6978, 6978>>,
   <<7019, 7027>>, <<7040, 7041>>, <<7074, 7077>>, <<7080, 7081>>, <<7083, 7085>>,
   <<7142, 7142>>, <<7144, 7145>>, <<7149, 7149>>, <<7151, 7153>>, <<7212, 7219>>,
   <<7222, 7223>>, <<7288, 7293>>, <<7376, 7378>>, <<7380, 7392>>, <<7394, 7400>>,
   <<7405, 7405>>, <<7412, 7412>>, <<7416, 7417>>, <<7468, 7530>>, <<7544, 7544>>,
   <<7579, 7679>>, <<8125, 8125>>, <<8127, 8129>>, <<8141, 8143>>, <<8157, 8159>>,
   <<8173, 8175>>, <<8189, 8190>>, <<8203, 8207>>, <<8216, 8217>>, <<8228, 8228>>,
   <<8231, 8231>>, <<8234, 8238>>, <<8288, 8292>>, <<8294, 8303>>, <<8305, 8305>>,
   <<8319, 8319>>, <<8336, 8348>>, <<8400, 8432>>, <<11388, 11389>>,
   <<11503, 11505>>, <<11631, 11631>>, <<11647, 11647>>, <<11744, 11775>>,
   <<11823, 11823>>, <<12293, 12293>>, <<12330, 12333>>, <<12337, 12341>>,
   <<12347, 12347>>, <<12441, 12446>>, <<12540, 12542>>, <<40981, 40981>>,
   <<42232, 42237>>, <<42508, 42508>>, <<42607, 42610>>, <<42612, 42621>>,
   <<42623, 42623>>, <<42652, 42655>>, <<42736, 42737>>, <<42752, 42785>>,
   <<42864, 42864>>, <<42888, 42890>>, <<42994, 42996>>, <<43000, 43001>>,
   <<43010, 43010>>, <<43014, 43014>>, <<43019, 43019>>, <<43045, 43046>>,
   <<43052, 43052>>, <<43204, 43205>>, <<43232, 43249>>, <<43263, 43263>>,
   <<43302, 43309>>, <<43335, 43345>>, <<43392, 43394>>, <<43443, 43443>>,
   <<43446, 43449>>, <<43452, 43453>>, <<43471, 43471>>, <<43493, 43494>>,
   <<43561, 43566>>, <<43569, 43570>>, <<43573, 43574>>, <<43587, 43587>>,
   <<43596, 43596>>, <<43632, 43632>>, <<43644, 43644>>, <<43696, 43696>>,
   <<43698, 43700>>, <<43703, 43704>>, <<43710, 43711>>, <<43713, 43713>>,
   <<43741, 43741>>, <<43756, 43757>>, <<43763, 43764>>, <<43766, 43766>>,
   <<43867, 43871>>, <<43881, 43883>>, <<44005, 44005>>, <<44008, 44008>>,
   <<44013, 44013>>, <<64286, 64286>>, <<64434, 64450>>, <<65024, 65039>>,
   <<65043, 65043>>, <<65056, 65071>>, <<65106, 65106>>, <<65109, 65109>>,
   <<65279, 65279>>, <<65287, 65287>>, <<65294, 65294>>, <<65306, 65306>>,
   <<65342, 65342>>, <<65344, 65344>>, <<65392, 65392>>, <<65438, 65439>>,
   <<65507, 65507>>, <<65529, 65531>>, <<66045, 66045>>, <<66272, 66272>>,
   <<66422, 66426>>, <<67456, 67461>>, <<67463, 67504>>, <<67506, 67514>>,
   <<68097, 68099>>, <<68101, 68102>>, <<68108, 68111>>, <<68152, 68154>>,
   <<68159, 68159>>, <<68325, 68326>>, <<68900, 68903>>, <<69291, 69292>>,
   <<69446, 69456>>, <<69506, 69509>>, <<69633, 69633>>, <<69688, 69702>>,
   <<69744, 69744>>, <<69747, 69748>>, <<69759, 69761>>, <<69811, 69814>>,
   <<69817, 69818>>, <<69821, 69821>>, <<69826, 69826>>, <<69837, 69837>>,
   <<69888, 69890>>, <<69927, 69931>>, <<69933, 69940>>, <<70003, 70003>>,
   <<70016, 70017>>, <<70070, 70078>>, <<70089, 70092>>, <<70095, 70095>>,
   <<70191, 70193>>, <<70196, 70196>>, <<70198, 70199>>, <<70206, 70206>>,
   <<70367, 70367>>, <<70371, 70378>>, <<70400, 70401>>, <<70459, 70460>>,
   <<70464, 70464>>, <<70502, 70508>>, <<70512, 70516>>, <<70712, 70719>>,
   <<70722, 70724>>, <<70726, 70726>>, <<70750, 70750>>, <<70835, 70840>>,
   <<70842, 70842>>, <<70847, 70848>>, <<70850, 70851>>, <<71090, 71093>>,
   <<71100, 71101>>, <<71103, 71104>>, <<71132, 71133>>, <<71219, 71226>>,
   <<71229, 71229>>, <<71231, 71232>>, <<71339, 71339>>, <<71341, 71341>>,
   <<71344, 71349>>, <<71351, 71351>>, <<71453, 71455>>, <<71458, 71461>>,
   <<71463, 71467>>, <<71727, 71735>>, <<71737, 71738>>, <<71995, 71996>>,
   <<71998, 71998>>, <<72003, 72003>>, <<72148, 72151>>, <<72154, 72155>>,
   <<72160, 72160>>, <<72193, 72202>>, <<72243, 72248>>, <<72251, 72254>>,
   <<72263, 72263>>, <<72273, 72278>>, <<72281, 72283>>, <<72330, 72342>>,
   <<72344, 72345>>, <<72752, 72758>>, <<72760, 72765>>, <<72767, 72767>>,
   <<72850, 72871>>, <<72874, 72880>>, <<72882, 72883>>, <<72885, 72886>>,
   <<73009, 73014>>, <<73018, 73018>>, <<73020, 73021>>, <<73023, 73029>>,
   <<73031, 73031>>, <<73104, 73105>>, <<73109, 73109>>, <<73111, 73111>>,
   <<73459, 73460>>, <<78896, 78904>>, <<92912, 92916>>, <<92976, 92982>>,
   <<92992, 92995>>, <<94031, 94031>>, <<94095, 94111>>, <<94176, 94177>>,
   <<94179, 94180>>, <<110576, 110579>>, <<110581, 110587>>, <<110589, 110590>>,
   <<113821, 113822>>, <<113824, 113827>>, <<118528, 118573>>, <<118576, 118598>>,
   <<119143, 119145>>, <<119155, 119170>>, <<119173, 119179>>, <<119210, 119213>>,
   <<119362, 119364>>, <<121344, 121398>>, <<121403, 121452>>, <<121461, 121461>>,
   <<121476, 121476>>, <<121499, 121503>>, <<121505, 121519>>, <<122880, 122886>>,
   <<122888, 122904>>, <<122907, 122913>>, <<122915, 122916>>, <<122918, 122922>>,
   <<123184, 123197>>, <<123566, 123566>>, <<123628, 123631>>, <<125136, 125142>>,
   <<125252, 125259>>, <<127995, 127999>>, <<917505, 917505>>, <<917536, 917631>>,
   <<917760, 917999>>}

\* the characters for which str.isalnum() is true
AlnumRanges ==
  {<<170, 170>>, <<178, 179>>, <<181, 181>>, <<185, 186>>, <<188, 190>>,
   <<192, 214>>, <<216, 246>>, <<248, 705>>, <<710, 721>>, <<736, 740>>,
   <<748, 748>>, <<750, 750>>, <<880, 884>>, <<886, 887>>, <<890, 893>>,
   <<895, 895>>, <<902, 902>>, <<904, 906>>, <<908, 908>>, <<910, 929>>,
   <<931, 1013>>, <<1015, 1153>>, <<1162, 1327>>, <<1329, 1366>>, <<1369, 1369>>,
   <<1376, 1416>>, <<1488, 1514>>, <<1519, 1522>>, <<1568, 1610>>, <<1632, 1641>>,
   <<1646, 1647>>, <<1649, 1747>>, <<1749, 1749>>, <<1765, 1766>>, <<1774, 1788>>,
   <<1791, 1791>>, <<1808, 1808>>, <<1810, 1839>>, <<1869, 1957>>, <<1969, 1969>>,
   <<1984, 2026>>, <<2036, 2037>>, <<2042, 2042>>, <<2048, 2069>>, <<2074, 2074>>,
   <<2084, 2084>>, <<2088, 2088>>, <<2112, 2136>>, <<2144, 2154>>, <<2160, 2183>>,
   <<2185, 2190>>, <<2208, 2249>>, <<2308, 2361>>, <<2365, 2365>>, <<2384, 2384>>,
   <<2392, 2401>>, <<2406, 2415>>, <<2417, 2432>>, <<2437, 2444>>, <<2447, 2448>>,
   <<2451, 2472>>, <<2474, 2480>>, <<2482, 2482>>, <<2486, 2489>>, <<2493, 2493>>,
   <<2510, 2510>>, <<2524, 2525>>, <<2527, 2529>>, <<2534, 2545>>, <<2548, 2553>>,
   <<2556, 2556>>, <<2565, 2570>>, <<2575, 2576>>, <<2579, 2600>>, <<2602, 2608>>,
   <<2610, 2611>>, <<2613, 2614>>, <<2616, 2617>>, <<2649, 2652>>, <<2654, 2654>>,
   <<2662, 2671>>, <<2674, 2676>>, <<2693, 2701>>, <<2703, 2705>>, <<2707, 2728>>,
   <<2730, 2736>>, <<2738, 2739>>, <<2741, 2745>>, <<2749, 2749>>, <<2768, 2768>>,
   <<2784, 2785>>, <<2790, 2799>>, <<2809, 2809>>, <<2821, 2828>>, <<2831, 2832>>,
   <<2835, 2856>>, <<2858, 2864>>, <<2866, 2867>>, <<2869, 2873>>, <<2877, 2877>>,
   <<2908, 2909>>, <<2911, 2913>>, <<2918, 2927>>, <<2929, 2935>>, <<2947, 2947>>,
   <<2949, 2954>>, <<2958, 2960>>, <<2962, 2965>>, <<2969, 2970>>, <<2972, 2972>>,
   <<2974, 2975>>, <<2979, 2980>>, <<2984, 2986>>, <<2990, 3001>>, <<3024, 3024>>,
   <<3046, 3058>>, <<3077, 3084>>, <<3086, 3088>>, <<3090, 3112>>, <<3114, 3129>>,
   <<3133, 3133>>, <<3160, 3162>>, <<3165, 3165>>, <<3168, 3169>>, <<3174, 3183>>,
   <<3192, 3198>>, <<3200, 3200>>, <<3205, 3212>>, <<3214, 3216>>, <<3218, 3240>>,
   <<3242, 3251>>, <<3253, 3257>>, <<3261, 3261>>, <<3293, 3294>>, <<3296, 3297>>,
   <<3302, 3311>>, <<3313, 3314>>, <<3332, 3340>>, <<3342, 3344>>, <<3346, 3386>>,
   <<3389, 3389>>, <<3406, 3406>>, <<3412, 3414>>, <<3416, 3425>>, <<3430, 3448>>,
   <<3450, 3455>>, <<3461, 3478>>, <<3482, 3505>>, <<3507, 3515>>, <<3517, 3517>>,
   <<3520, 3526>>, <<3558, 3567>>, <<3585, 3632>>, <<3634, 3635>>, <<3648, 3654>>,
   <<3664, 3673>>, <<3713, 3714>>, <<3716, 3716>>, <<3718, 3722>>, <<3724, 3747>>,
   <<3749, 3749>>, <<3751, 3760>>, <<3762, 3763>>, <<3773, 3773>>, <<3776, 3780>>,
   <<3782, 3782>>, <<3792, 3801>>, <<3804, 3807>>, <<3840, 3840>>, <<3872, 3891>>,
   <<3904, 3911>>, <<3913, 3948>>, <<3976, 3980>>, <<4096, 4138>>, <<4159, 4169>>,
   <<4176, 4181>>, <<4186, 4189>>, <<4193, 4193>>, <<4197, 4198>>, <<4206, 4208>>,
   <<4213, 4225>>, <<4238, 4238>>, <<4240, 4249>>, <<4256, 4293>>, <<4295, 4295>>,
   <<4301, 4301>>, <<4304, 4346>>, <<4348, 4680>>, <<4682, 4685>>, <<4688, 4694>>,
   <<4696, 4696>>, <<4698, 4701>>, <<4704, 4744>>, <<4746, 4749>>, <<4752, 4784>>,
   <<4786, 4789>>, <<4792, 4798>>, <<4800, 4800>>, <<4802, 4805>>, <<4808, 4822>>,
   <<4824, 4880>>, <<4882, 4885>>, <<4888, 4954>>, <<4969, 4988>>, <<4992, 5007>>,
   <<5024, 5109>>, <<5112, 5117>>, <<5121, 5740>>, <<5743, 5759>>, <<5761, 5786>>,
   <<5792, 5866>>, <<5870, 5880>>, <<5888, 5905>>, <<5919, 5937>>, <<5952, 5969>>,
   <<5984, 5996>>, <<5998, 6000>>, <<6016, 6067>>, <<6103, 6103>>, <<6108, 6108>>,
   <<6112, 6121>>, <<6128, 6137>>, <<6160, 6169>>, <<6176, 6264>>, <<6272, 6276>>,
   <<6279, 6312>>, <<6314, 6314>>, <<6320, 6389>>, <<6400, 6430>>, <<6470, 6509>>,
   <<6512, 6516>>, <<6528, 6571>>, <<6576, 6601>>, <<6608, 6618>>, <<6656, 6678>>,
   <<6688, 6740>>, <<6784, 6793>>, <<6800, 6809>>, <<6823, 6823>>, <<6917, 6963>>,
   <<6981, 6988>>, <<6992, 7001>>, <<7043, 7072>>, <<7086, 7141>>, <<7168, 7203>>,
   <<7232, 7241>>, <<7245, 7293>>, <<7296, 7304>>, <<7312, 7354>>, <<7357, 7359>>,
   <<7401, 7404>>, <<7406, 7411>>, <<7413, 7414>>, <<7418, 7418>>, <<7424, 7615>>,
   <<7680, 7957>>, <<7960, 7965>>, <<7968, 8005>>, <<8008, 8013>>, <<8016, 8023>>,
   <<8025, 8025>>, <<8027, 8027>>, <<8029, 8029>>, <<8031, 8061>>, <<8064, 8116>>,
   <<8118, 8124>>, <<8126, 8126>>, <<8130, 8132>>, <<8134, 8140>>, <<8144, 8147>>,
   <<8150, 8155>>, <<8160, 8172>>, <<8178, 8180>>, <<8182, 8188>>, <<8304, 8305>>,
   <<8308, 8313>>, <<8319, 8329>>, <<8336, 8348>>, <<8450, 8450>>, <<8455, 8455>>,
   <<8458, 8467>>, <<8469, 8469>>, <<8473, 8477>>, <<8484, 8484>>, <<8486, 8486>>,
   <<8488, 8488>>, <<8490, 8493>>, <<8495, 8505>>, <<8508, 8511>>, <<8517, 8521>>,
   <<8526, 8526>>, <<8528, 8585>>, <<9312, 9371>>, <<9450, 9471>>, <<10102, 10131>>,
   <<11264, 11492>>, <<11499, 11502>>, <<11506, 11507>>, <<11517, 11517>>,
   <<11520, 11557>>, <<11559, 11559>>, <<11565, 11565>>, <<11568, 11623>>,
   <<11631, 11631>>, <<11648, 11670>>, <<11680, 11686>>, <<11688, 11694>>,
   <<11696, 11702>>, <<11704, 11710>>, <<11712, 11718>>, <<11720, 11726>>,
   <<11728, 11734>>, <<11736, 11742>>, <<11823, 11823>>, <<12293, 12295>>,
   <<12321, 12329>>, <<12337, 12341>>, <<12344, 12348>>, <<12353, 12438>>,
   <<12445, 12447>>, <<12449, 12538>>, <<12540, 12543>>, <<12549, 12591>>,
   <<12593, 12686>>, <<12690, 12693>>, <<12704, 12735>>, <<12784, 12799>>,
   <<12832, 12841>>, <<12872, 12879>>, <<12881, 12895>>, <<12928, 12937>>,
   <<12977, 12991>>, <<13312, 19903>>, <<19968, 42124>>, <<42192, 42237>>,
   <<42240, 42508>>, <<42512, 42539>>, <<42560, 42606>>, <<42623, 42653>>,
   <<42656, 42735>>, <<42775, 42783>>, <<42786, 42888>>, <<42891, 42954>>,
   <<42960, 42961>>, <<42963, 42963>>, <<42965, 42969>>, <<42994, 43009>>,
   <<43011, 43013>>, <<43015, 43018>>, <<43020, 43042>>, <<43056, 43061>>,
   <<43072, 43123>>, <<43138, 43187>>, <<43216, 43225>>, <<43250, 43255>>,
   <<43259, 43259>>, <<43261, 43262>>, <<43264, 43301>>, <<43312, 43334>>,
   <<43360, 43388>>, <<43396, 43442>>, <<43471, 43481>>, <<43488, 43492>>,
   <<43494, 43518>>, <<43520, 43560>>, <<43584, 43586>>, <<43588, 43595>>,
   <<43600, 43609>>, <<43616, 43638>>, <<43642, 43642>>, <<43646, 43695>>,
   <<43697, 43697>>, <<43701, 43702>>, <<43705, 43709>>, <<43712, 43712>>,
   <<43714, 43714>>, <<43739, 43741>>, <<43744, 43754>>, <<43762, 43764>>,
   <<43777, 43782>>, <<43785, 43790>>, <<43793, 43798>>, <<43808, 43814>>,
   <<43816, 43822>>, <<43824, 43866>>, <<43868, 43881>>, <<43888, 44002>>,
   <<44016, 44025>>, <<44032, 55203>>, <<55216, 55238>>, <<55243, 55291>>,
   <<63744, 64109>>, <<64112, 64217>>, <<64256, 64262>>, <<64275, 64279>>,
   <<64285, 64285>>, <<64287, 64296>>, <<64298, 64310>>, <<64312, 64316>>,
   <<64318, 64318>>, <<64320, 64321>>, <<64323, 64324>>, <<64326, 64433>>,
   <<64467, 64829>>, <<64848, 64911>>, <<64914, 64967>>, <<65008, 65019>>,
   <<65136, 65140>>, <<65142, 65276>>, <<65296, 65305>>, <<65313, 65338>>,
   <<65345, 65370>>, <<65382, 65470>>, <<65474, 65479>>, <<65482, 65487>>,
   <<65490, 65495>>, <<65498, 65500>>, <<65536, 65547>>, <<65549, 65574>>,
   <<65576, 65594>>, <<65596, 65597>>, <<65599, 65613>>, <<65616, 65629>>,
   <<65664, 65786>>, <<65799, 65843>>, <<65856, 65912>>, <<65930, 65931>>,
   <<66176, 66204>>, <<66208, 66256>>, <<66273, 66299>>, <<66304, 66339>>,
   <<66349, 66378>>, <<66384, 66421>>, <<66432, 66461>>, <<66464, 66499>>,
   <<66504, 66511>>, <<66513, 66517>>, <<66560, 66717>>, <<66720, 66729>>,
   <<66736, 66771>>, <<66776, 66811>>, <<66816, 66855>>, <<66864, 66915>>,
   <<66928, 66938>>, <<66940, 66954>>, <<66956, 66962>>, <<66964, 66965>>,
   <<66967, 66977>>, <<66979, 66993>>, <<66995, 67001>>, <<67003, 67004>>,
   <<67072, 67382>>, <<67392, 67413>>, <<67424, 67431>>, <<67456, 67461>>,
   <<67463, 67504>>, <<67506, 67514>>, <<67584, 67589>>, <<67592, 67592>>,
   <<67594, 67637>>, <<67639, 67640>>, <<67644, 67644>>, <<67647, 67669>>,
   <<67672, 67702>>, <<67705, 67742>>, <<67751, 67759>>, <<67808, 67826>>,
   <<67828, 67829>>, <<67835, 67867>>, <<67872, 67897>>, <<67968, 68023>>,
   <<68028, 68047>>, <<68050, 68096>>, <<68112, 68115>>, <<68117, 68119>>,
   <<68121, 68149>>, <<68160, 68168>>, <<68192, 68222>>, <<68224, 68255>>,
   <<68288, 68295>>, <<68297, 68324>>, <<68331, 68335>>, <<68352, 68405>>,
   <<68416, 68437>>, <<68440, 68466>>, <<68472, 68497>>, <<68521, 68527>>,
   <<68608, 68680>>, <<68736, 68786>>, <<68800, 68850>>, <<68858, 68899>>,
   <<68912, 68921>>, <<69216, 69246>>, <<69248, 69289>>, <<69296, 69297>>,
   <<69376, 69415>>, <<69424, 69445>>, <<69457, 69460>>, <<69488, 69505>>,
   <<69552, 69579>>, <<69600, 69622>>, <<69635, 69687>>, <<69714, 69743>>,
   <<69745, 69746>>, <<69749, 69749>>, <<69763, 69807>>, <<69840, 69864>>,
   <<69872, 69881>>, <<69891, 69926>>, <<69942, 69951>>, <<69956, 69956>>,
   <<69959, 69959>>, <<69968, 70002>>, <<70006, 70006>>, <<70019, 70066>>,
   <<70081, 70084>>, <<70096, 70106>>, <<70108, 70108>>, <<70113, 70132>>,
   <<70144, 70161>>, <<70163, 70187>>, <<70272, 70278>>, <<70280, 70280>>,
   <<70282, 70285>>, <<70287, 70301>>, <<70303, 70312>>, <<70320, 70366>>,
   <<70384, 70393>>, <<70405, 70412>>, <<70415, 70416>>, <<70419, 70440>>,
   <<70442, 70448>>, <<70450, 70451>>, <<70453, 70457>>, <<70461, 70461>>,
   <<70480, 70480>>, <<70493, 70497>>, <<70656, 70708>>, <<70727, 70730>>,
   <<70736, 70745>>, <<70751, 70753>>, <<70784, 70831>>, <<70852, 70853>>,
   <<70855, 70855>>, <<70864, 70873>>, <<71040, 71086>>, <<71128, 71131>>,
   <<71168, 71215>>, <<71236, 71236>>, <<71248, 71257>>, <<71296, 71338>>,
   <<71352, 71352>>, <<71360, 71369>>, <<71424, 71450>>, <<71472, 71483>>,
   <<71488, 71494>>, <<71680, 71723>>, <<71840, 71922>>, <<71935, 71942>>,
   <<71945, 71945>>, <<71948, 71955>>, <<71957, 71958>>, <<71960, 71983>>,
   <<71999, 71999>>, <<72001, 72001>>, <<72016, 72025>>, <<72096, 72103>>,
   <<72106, 72144>>, <<72161, 72161>>, <<72163, 72163>>, <<72192, 72192>>,
   <<72203, 72242>>, <<72250, 72250>>, <<72272, 72272>>, <<72284, 72329>>,
   <<72349, 72349>>, <<72368, 72440>>, <<72704, 72712>>, <<72714, 72750>>,
   <<72768, 72768>>, <<72784, 72812>>, <<72818, 72847>>, <<72960, 72966>>,
   <<72968, 72969>>, <<72971, 73008>>, <<73030, 73030>>, <<73040, 73049>>,
   <<73056, 73061>>, <<73063, 73064>>, <<73066, 73097>>, <<73112, 73112>>,
   <<73120, 73129>>, <<73440, 73458>>, <<73648, 73648>>, <<73664, 73684>>,
   <<73728, 74649>>, <<74752, 74862>>, <<74880, 75075>>, <<77712, 77808>>,
   <<77824, 78894>>, <<82944, 83526>>, <<92160, 92728>>, <<92736, 92766>>,
   <<92768, 92777>>, <<92784, 92862>>, <<92864, 92873>>, <<92880, 92909>>,
   <<92928, 92975>>, <<92992, 92995>>, <<93008, 93017>>, <<93019, 93025>>,
   <<93027, 93047>>, <<93053, 93071>>, <<93760, 93846>>, <<93952, 94026>>,
   <<94032, 94032>>, <<94099, 94111>>, <<94176, 94177>>, <<94179, 94179>>,
   <<94208, 100343>>, <<100352, 101589>>, <<101632, 101640>>, <<110576, 110579>>,
   <<110581, 110587>>, <<110589, 110590>>, <<110592, 110882>>, <<110928, 110930>>,
   <<110948, 110951>>, <<110960, 111355>>, <<113664, 113770>>, <<113776, 113788>>,
   <<113792, 113800>>, <<113808, 113817>>, <<119520, 119539>>, <<119648, 119672>>,
   <<119808, 119892>>, <<119894, 119964>>, <<119966, 119967>>, <<119970, 119970>>,
   <<119973, 119974>>, <<119977, 119980>>, <<119982, 119993>>, <<119995, 119995>>,
   <<119997, 120003>>, <<120005, 120069>>, <<120071, 120074>>, <<120077, 120084>>,
   <<120086, 120092>>, <<120094, 120121>>, <<120123, 120126>>, <<120128, 120132>>,
   <<120134, 120134>>, <<120138, 120144>>, <<120146, 120485>>, <<120488, 120512>>,
   <<120514, 120538>>, <<120540, 120570>>, <<120572, 120596>>, <<120598, 120628>>,
   <<120630, 120654>>, <<120656, 120686>>, <<120688, 120712>>, <<120714, 120744>>,
   <<120746, 120770>>, <<120772, 120779>>, <<120782, 120831>>, <<122624, 122654>>,
   <<123136, 123180>>, <<123191, 123197>>, <<123200, 123209>>, <<123214, 123214>>,
   <<123536, 123565>>, <<123584, 123627>>, <<123632, 123641>>, <<124896, 124902>>,
   <<124904, 124907>>, <<124909, 124910>>, <<124912, 124926>>, <<124928, 125124>>,
   <<125127, 125135>>, <<125184, 125251>>, <<125259, 125259>>, <<125264, 125273>>,
   <<126065, 126123>>, <<126125, 126127>>, <<126129, 126132>>, <<126209, 126253>>,
   <<126255, 126269>>, <<126464, 126467>>, <<126469, 126495>>, <<126497, 126498>>,
   <<126500, 126500>>, <<126503, 126503>>, <<126505, 126514>>, <<126516, 126519>>,
   <<126521, 126521>>, <<126523, 126523>>, <<126530, 126530>>, <<126535, 126535>>,
   <<126537, 126537>>, <<126539, 126539>>, <<126541, 126543>>, <<126545, 126546>>,
   <<126548, 126548>>, <<126551, 126551>>, <<126553, 126553>>, <<126555, 126555>>,
   <<126557, 126557>>, <<126559, 126559>>, <<126561, 126562>>, <<126564, 126564>>,
   <<126567, 126570>>, <<126572, 126578>>, <<126580, 126583>>, <<126585, 126588>>,
   <<126590, 126590>>, <<126592, 126601>>, <<126603, 126619>>, <<126625, 126627>>,
   <<126629, 126633>>, <<126635, 126651>>, <<127232, 127244>>, <<130032, 130041>>,
   <<131072, 173791>>, <<173824, 177976>>, <<177984, 178205>>, <<178208, 183969>>,
   <<183984, 191456>>, <<194560, 195101>>, <<196608, 201546>>}

\* the characters for which str.isspace() is true, which str.rstrip() strips
SpaceRanges ==
  {<<9, 13>>, <<28, 32>>, <<133, 133>>, <<160, 160>>, <<5760, 5760>>,
   <<8192, 8202>>, <<8232, 8233>>, <<8239, 8239>>, <<8287, 8287>>, <<12288, 12288>>}

\* The case mappings above ASCII, as runs <<first, last, step, delta>>: every
\* step-th code point c of first..last maps to c + delta; the code points that
\* map to more than one character are listed with their images.
LowerRuns ==
  {<<192, 214, 1, 32>>, <<216, 222, 1, 32>>, <<256, 302, 2, 1>>, <<306, 310, 2, 1>>,
   <<313, 327, 2, 1>>, <<330, 374, 2, 1>>, <<376, 376, 1, -121>>, <<377, 381, 2, 1>>,
   <<385, 385, 1, 210>>, <<386, 388, 2, 1>>, <<390, 390, 1, 206>>, <<391, 391, 1, 1>>,
   <<393, 394, 1, 205>>, <<395, 395, 1, 1>>, <<398, 398, 1, 79>>, <<399, 399, 1, 202>>,
   <<400, 400, 1, 203>>, <<401, 401, 1, 1>>, <<403, 403, 1, 205>>, <<404, 404, 1, 207>>,
   <<406, 406, 1, 211>>, <<407, 407, 1, 209>>, <<408, 408, 1, 1>>, <<412, 412, 1, 211>>,
   <<413, 413, 1, 213>>, <<415, 415, 1, 214>>, <<416, 420, 2, 1>>, <<422, 422, 1, 218>>,
   <<423, 423, 1, 1>>, <<425, 425, 1, 218>>, <<428, 428, 1, 1>>, <<430, 430, 1, 218>>,
   <<431, 431, 1, 1>>, <<433, 434, 1, 217>>, <<435, 437, 2, 1>>, <<439, 439, 1, 219>>,
   <<440, 440, 1, 1>>, <<444, 444, 1, 1>>, <<452, 452, 1, 2>>, <<453, 453, 1, 1>>,
   <<455, 455, 1, 2>>, <<456, 456, 1, 1>>, <<458, 458, 1, 2>>, <<459, 475, 2, 1>>,
   <<478, 494, 2, 1>>, <<497, 497, 1, 2>>, <<498, 500, 2, 1>>, <<502, 502, 1, -97>>,
   <<503, 503, 1, -56>>, <<504, 542, 2, 1>>, <<544, 544, 1, -130>>,
   <<546, 562, 2, 1>>, <<570, 570, 1, 10795>>, <<571, 571, 1, 1>>, <<573, 573, 1, -163>>,
   <<574, 574, 1, 10792>>, <<577, 577, 1, 1>>, <<579, 579, 1, -195>>,
   <<580, 580, 1, 69>>, <<581, 581, 1, 71>>, <<582, 590, 2, 1>>, <<880, 882, 2, 1>>,
   <<886, 886, 1, 1>>, <<895, 895, 1, 116>>, <<902, 902, 1, 38>>, <<904, 906, 1, 37>>,
   <<908, 908, 1, 64>>, <<910, 911, 1, 63>>, <<913, 929, 1, 32>>, <<931, 939, 1, 32>>,
   <<975, 975, 1, 8>>, <<984, 1006, 2, 1>>, <<1012, 1012, 1, -60>>,
   <<1015, 1015, 1, 1>>, <<1017, 1017, 1, -7>>, <<1018, 1018, 1, 1>>,
   <<1021, 1023, 1, -130>>, <<1024, 1039, 1, 80>>, <<1040, 1071, 1, 32>>,
   <<1120, 1152, 2, 1>>, <<1162, 1214, 2, 1>>, <<1216, 1216, 1, 15>>,
   <<1217, 1229, 2, 1>>, <<1232, 1326, 2, 1>>, <<1329, 1366, 1, 48>>,
   <<4256, 4293, 1, 7264>>, <<4295, 4295, 1, 7264>>, <<4301, 4301, 1, 7264>>,
   <<5024, 5103, 1, 38864>>, <<5104, 5109, 1, 8>>, <<7312, 7354, 1, -3008>>,
   <<7357, 7359, 1, -3008>>, <<7680, 7828, 2, 1>>, <<7838, 7838, 1, -7615>>,
   <<7840, 7934, 2, 1>>, <<7944, 7951, 1, -8>>, <<7960, 7965, 1, -8>>,
   <<7976, 7983, 1, -8>>, <<7992, 7999, 1, -8>>, <<8008, 8013, 1, -8>>,
   <<8025, 8031, 2, -8>>, <<8040, 8047, 1, -8>>, <<8072, 8079, 1, -8>>,
   <<8088, 8095, 1, -8>>, <<8104, 8111, 1, -8>>, <<8120, 8121, 1, -8>>,
   <<8122, 8123, 1, -74>>, <<8124, 8124, 1, -9>>, <<8136, 8139, 1, -86>>,
   <<8140, 8140, 1, -9>>, <<8152, 8153, 1, -8>>, <<8154, 8155, 1, -100>>,
   <<8168, 8169, 1, -8>>, <<8170, 8171, 1, -112>>, <<8172, 8172, 1, -7>>,
   <<8184, 8185, 1, -128>>, <<8186, 8187, 1, -126>>, <<8188, 8188, 1, -9>>,
   <<8486, 8486, 1, -7517>>, <<8490, 8490, 1, -8383>>, <<8491, 8491, 1, -8262>>,
   <<8498, 8498, 1, 28>>, <<8544, 8559, 1, 16>>, <<8579, 8579, 1, 1>>,
   <<9398, 9423, 1, 26>>, <<11264, 11311, 1, 48>>, <<11360, 11360, 1, 1>>,
   <<11362, 11362, 1, -10743>>, <<11363, 11363, 1, -3814>>, <<11364, 11364, 1, -10727>>,
   <<11367, 11371, 2, 1>>, <<11373, 11373, 1, -10780>>, <<11374, 11374, 1, -10749>>,
   <<11375, 11375, 1, -10783>>, <<11376, 11376, 1, -10782>>, <<11378, 11378, 1, 1>>,
   <<11381, 11381, 1, 1>>, <<11390, 11391, 1, -10815>>, <<11392, 11490, 2, 1>>,
   <<11499, 11501, 2, 1>>, <<11506, 11506, 1, 1>>, <<42560, 42604, 2, 1>>,
   <<42624, 42650, 2, 1>>, <<42786, 42798, 2, 1>>, <<42802, 42862, 2, 1>>,
   <<42873, 42875, 2, 1>>, <<42877, 42877, 1, -35332>>, <<42878, 42886, 2, 1>>,
   <<42891, 42891, 1, 1>>, <<42893, 42893, 1, -42280>>, <<42896, 42898, 2, 1>>,
   <<42902, 42920, 2, 1>>, <<42922, 42922, 1, -42308>>, <<42923, 42923, 1, -42319>>,
   <<42924, 42924, 1, -42315>>, <<42925, 42925, 1, -42305>>, <<42926, 42926, 1, -42308>>,
   <<42928, 42928, 1, -42258>>, <<42929, 42929, 1, -42282>>, <<42930, 42930, 1, -42261>>,
   <<42931, 42931, 1, 928>>, <<42932, 42946, 2, 1>>, <<42948, 42948, 1, -48>>,
   <<42949, 42949, 1, -42307>>, <<42950, 42950, 1, -35384>>, <<42951, 42953, 2, 1>>,
   <<42960, 42960, 1, 1>>, <<42966, 42968, 2, 1>>, <<42997, 42997, 1, 1>>,
   <<65313, 65338, 1, 32>>, <<66560, 66599, 1, 40>>, <<66736, 66771, 1, 40>>,
   <<66928, 66938, 1, 39>>, <<66940, 66954, 1, 39>>, <<66956, 66962, 1, 39>>,
   <<66964, 66965, 1, 39>>, <<68736, 68786, 1, 64>>, <<71840, 71871, 1, 32>>,
   <<93760, 93791, 1, 32>>, <<125184, 125217, 1, 34>>}

LowerSpecial ==
  {<<304, <<105, 775>>>>}

TitleRuns ==
  {<<181, 181, 1, 743>>, <<224, 246, 1, -32>>, <<248, 254, 1, -32>>,
   <<255, 255, 1, 121>>, <<257, 303, 2, -1>>, <<305, 305, 1, -232>>,
   <<307, 311, 2, -1>>, <<314, 328, 2, -1>>, <<331, 375, 2, -1>>, <<378, 382, 2, -1>>,
   <<383, 383, 1, -300>>, <<384, 384, 1, 195>>, <<387, 389, 2, -1>>,
   <<392, 392, 1, -1>>, <<396, 396, 1, -1>>, <<402, 402, 1, -1>>, <<405, 405, 1, 97>>,
   <<409, 409, 1, -1>>, <<410, 410, 1, 163>>, <<414, 414, 1, 130>>,
   <<417, 421, 2, -1>>, <<424, 424, 1, -1>>, <<429, 429, 1, -1>>, <<432, 432, 1, -1>>,
   <<436, 438, 2, -1>>, <<441, 441, 1, -1>>, <<445, 445, 1, -1>>, <<447, 447, 1, 56>>,
   <<452, 452, 1, 1>>, <<454, 454, 1, -1>>, <<455, 455, 1, 1>>, <<457, 457, 1, -1>>,
   <<458, 458, 1, 1>>, <<460, 476, 2, -1>>, <<477, 477, 1, -79>>, <<479, 495, 2, -1>>,
   <<497, 497, 1, 1>>, <<499, 501, 2, -1>>, <<505, 543, 2, -1>>, <<547, 563, 2, -1>>,
   <<572, 572, 1, -1>>, <<575, 576, 1, 10815>>, <<578, 578, 1, -1>>,
   <<583, 591, 2, -1>>, <<592, 592, 1, 10783>>, <<593, 593, 1, 10780>>,
   <<594, 594, 1, 10782>>, <<595, 595, 1, -210>>, <<596, 596, 1, -206>>,
   <<598, 599, 1, -205>>, <<601, 601, 1, -202>>, <<603, 603, 1, -203>>,
   <<604, 604, 1, 42319>>, <<608, 608, 1, -205>>, <<609, 609, 1, 42315>>,
   <<611, 611, 1, -207>>, <<613, 613, 1, 42280>>, <<614, 614, 1, 42308>>,
   <<616, 616, 1, -209>>, <<617, 617, 1, -211>>, <<618, 618, 1, 42308>>,
   <<619, 619, 1, 10743>>, <<620, 620, 1, 42305>>, <<623, 623, 1, -211>>,
   <<625, 625, 1, 10749>>, <<626, 626, 1, -213>>, <<629, 629, 1, -214>>,
   <<637, 637, 1, 10727>>, <<640, 640, 1, -218>>, <<642, 642, 1, 42307>>,
   <<643, 643, 1, -218>>, <<647, 647, 1, 42282>>, <<648, 648, 1, -218>>,
   <<649, 649, 1, -69>>, <<650, 651, 1, -217>>, <<652, 652, 1, -71>>,
   <<658, 658, 1, -219>>, <<669, 669, 1, 42261>>, <<670, 670, 1, 42258>>,
   <<837, 837, 1, 84>>, <<881, 883, 2, -1>>, <<887, 887, 1, -1>>, <<891, 893, 1, 130>>,
   <<940, 940, 1, -38>>, <<941, 943, 1, -37>>, <<945, 961, 1, -32>>,
   <<962, 962, 1, -31>>, <<963, 971, 1, -32>>, <<972, 972, 1, -64>>,
   <<973, 974, 1, -63>>, <<976, 976, 1, -62>>, <<977, 977, 1, -57>>,
   <<981, 981, 1, -47>>, <<982, 982, 1, -54>>, <<983, 983, 1, -8>>,
   <<985, 1007, 2, -1>>, <<1008, 1008, 1, -86>>, <<1009, 1009, 1, -80>>,
   <<1010, 1010, 1, 7>>, <<1011, 1011, 1, -116>>, <<1013, 1013, 1, -96>>,
   <<1016, 1016, 1, -1>>, <<1019, 1019, 1, -1>>, <<1072, 1103, 1, -32>>,
   <<1104, 1119, 1, -80>>, <<1121, 1153, 2, -1>>, <<1163, 1215, 2, -1>>,
   <<1218, 1230, 2, -1>>, <<1231, 1231, 1, -15>>, <<1233, 1327, 2, -1>>,
   <<1377, 1414, 1, -48>>, <<5112, 5117, 1, -8>>, <<7296, 7296, 1, -6254>>,
   <<7297, 7297, 1, -6253>>, <<7298, 7298, 1, -6244>>, <<7299, 7300, 1, -6242>>,
   <<7301, 7301, 1, -6243>>, <<7302, 7302, 1, -6236>>, <<7303, 7303, 1, -6181>>,
   <<7304, 7304, 1, 35266>>, <<7545, 7545, 1, 35332>>, <<7549, 7549, 1, 3814>>,
   <<7566, 7566, 1, 35384>>, <<7681, 7829, 2, -1>>, <<7835, 7835, 1, -59>>,
   <<7841, 7935, 2, -1>>, <<7936, 7943, 1, 8>>, <<7952, 7957, 1, 8>>,
   <<7968, 7975, 1, 8>>, <<7984, 7991, 1, 8>>, <<8000, 8005, 1, 8>>,
   <<8017, 8023, 2, 8>>, <<8032, 8039, 1, 8>>, <<8048, 8049, 1, 74>>,
   <<8050, 8053, 1, 86>>, <<8054, 8055, 1, 100>>, <<8056, 8057, 1, 128>>,
   <<8058, 8059, 1, 112>>, <<8060, 8061, 1, 126>>, <<8064, 8071, 1, 8>>,
   <<8080, 8087, 1, 8>>, <<8096, 8103, 1, 8>>, <<8112, 8113, 1, 8>>,
   <<8115, 8115, 1, 9>>, <<8126, 8126, 1, -7205>>, <<8131, 8131, 1, 9>>,
   <<8144, 8145, 1, 8>>, <<8160, 8161, 1, 8>>, <<8165, 8165, 1, 7>>,
   <<8179, 8179, 1, 9>>, <<8526, 8526, 1, -28>>, <<8560, 8575, 1, -16>>,
   <<8580, 8580, 1, -1>>, <<9424, 9449, 1, -26>>, <<11312, 11359, 1, -48>>,
   <<11361, 11361, 1, -1>>, <<11365, 11365, 1, -10795>>, <<11366, 11366, 1, -10792>>,
   <<11368, 11372, 2, -1>>, <<11379, 11379, 1, -1>>, <<11382, 11382, 1, -1>>,
   <<11393, 11491, 2, -1>>, <<11500, 11502, 2, -1>>, <<11507, 11507, 1, -1>>,
   <<11520, 11557, 1, -7264>>, <<11559, 11559, 1, -7264>>, <<11565, 11565, 1, -7264>>,
   <<42561, 42605, 2, -1>>, <<42625, 42651, 2, -1>>, <<42787, 42799, 2, -1>>,
   <<42803, 42863, 2, -1>>, <<42874, 42876, 2, -1>>, <<42879, 42887, 2, -1>>,
   <<42892, 42892, 1, -1>>, <<42897, 42899, 2, -1>>, <<42900, 42900, 1, 48>>,
   <<42903, 42921, 2, -1>>, <<42933, 42947, 2, -1>>, <<42952, 42954, 2, -1>>,
   <<42961, 42961, 1, -1>>, <<42967, 42969, 2, -1>>, <<42998, 42998, 1, -1>>,
   <<43859, 43859, 1, -928>>, <<43888, 43967, 1, -38864>>, <<65345, 65370, 1, -32>>,
   <<66600, 66639, 1, -40>>, <<66776, 66811, 1, -40>>, <<66967, 66977, 1, -39>>,
   <<66979, 66993, 1, -39>>, <<66995, 67001, 1, -39>>, <<67003, 67004, 1, -39>>,
   <<68800, 68850, 1, -64>>, <<71872, 71903, 1, -32>>, <<93792, 93823, 1, -32>>,
   <<125218, 125251, 1, -34>>}

TitleSpecial ==
  {<<223, <<83, 115>>>>, <<329, <<700, 78>>>>, <<496, <<74, 780>>>>,
   <<912, <<921, 776, 769>>>>, <<944, <<933, 776, 769>>>>, <<1415, <<1333, 1410>>>>,
   <<7830, <<72, 817>>>>, <<7831, <<84, 776>>>>, <<7832, <<87, 778>>>>,
   <<7833, <<89, 778>>>>, <<7834, <<65, 702>>>>, <<8016, <<933, 787>>>>,
   <<8018, <<933, 787, 768>>>>, <<8020, <<933, 787, 769>>>>, <<8022, <<933, 787, 834>>>>,
   <<8114, <<8122, 837>>>>, <<8116, <<902, 837>>>>, <<8118, <<913, 834>>>>,
   <<8119, <<913, 834, 837>>>>, <<8130, <<8138, 837>>>>, <<8132, <<905, 837>>>>,
   <<8134, <<919, 834>>>>, <<8135, <<919, 834, 837>>>>, <<8146, <<921, 776, 768>>>>,
   <<8147, <<921, 776, 769>>>>, <<8150, <<921, 834>>>>, <<8151, <<921, 776, 834>>>>,
   <<8162, <<933, 776, 768>>>>, <<8163, <<933, 776, 769>>>>, <<8164, <<929, 787>>>>,
   <<8166, <<933, 834>>>>, <<8167, <<933, 776, 834>>>>, <<8178, <<8186, 837>>>>,
   <<8180, <<911, 837>>>>, <<8182, <<937, 834>>>>, <<8183, <<937, 834, 837>>>>,
   <<64256, <<70, 102>>>>, <<64257, <<70, 105>>>>, <<64258, <<70, 108>>>>,
   <<64259, <<70, 102, 105>>>>, <<64260, <<70, 102, 108>>>>, <<64261, <<83, 116>>>>,
   <<64262, <<83, 116>>>>, <<64275, <<1348, 1398>>>>, <<64276, <<1348, 1381>>>>,
   <<64277, <<1348, 1387>>>>, <<64278, <<1358, 1398>>>>, <<64279, <<1348, 1389>>>>}

InRun(c, r) == r[1] <= c /\ c <= r[2] /\ (c - r[1]) % r[3] = 0

\* the image of one character under a case mapping, as a string
MapChar(c, runs, special) ==
  IF \E p \in special : p[1] = c THEN (CHOOSE p \in special : p[1] = c)[2]
  ELSE IF \E r \in runs : InRun(c, r)
    THEN <<c + (CHOOSE r \in runs : InRun(c, r))[4]>>
  ELSE <<c>>

IsCased(c) ==
  IF c < 128 THEN c \in 65..90 \/ c \in 97..122 ELSE InRanges(c, CasedRanges)

IsCaseIgnorable(c) == InRanges(c, CaseIgnorableRanges)

\* c.isalnum()
IsAlnum(c) ==
  IF c < 128 THEN c \in 48..57 \/ c \in 65..90 \/ c \in 97..122
  ELSE InRanges(c, AlnumRanges)

\* c.isspace()
IsSpace(c) == InRanges(c, SpaceRanges)

\* c.lower() of one character other than a capital sigma in a word
LowerChar(c) ==
  IF c < 128 THEN <<IF c \in 65..90 THEN c + 32 ELSE c>>
  ELSE MapChar(c, LowerRuns, LowerSpecial)

\* c.title() of one character: its title-case image
TitleChar(c) ==
  IF c < 128 THEN <<IF c \in 97..122 THEN c - 32 ELSE c>>
  ELSE MapChar(c, TitleRuns, TitleSpecial)

\* the capital sigma s[i] is final: a cased character comes before it and none
\* after it, case-ignorable characters not counted
FinalSigma(s, i) ==
  LET before == {j \in 1..(i - 1) : ~IsCaseIgnorable(s[j])}
      after == {j \in (i + 1)..Len(s) : ~IsCaseIgnorable(s[j])}
  IN  /\ before # {}
      /\ IsCased(s[CHOOSE j \in before : \A k \in before : k <= j])
      /\ after = {} \/ ~IsCased(s[CHOOSE j \in after : \A k \in after : j <= k])

\* the lower-case image of s[i] inside s
LowerAt(s, i) ==
  IF s[i] = 931 THEN <<IF FinalSigma(s, i) THEN 962 ELSE 963>>
  ELSE LowerChar(s[i])

\* str.lower()
Lower(s) == Concat([i \in 1..Len(s) |-> LowerAt(s, i)])

\* str.title(): a character is lower-cased when the character before it is
\* cased, and title-cased otherwise
Title(s) ==
  Concat([i \in 1..Len(s) |->
     IF i > 1 /\ IsCased(s[i-1]) THEN LowerAt(s, i) ELSE TitleChar(s[i])])

\* Python's str < str: lexicographic by code point, a proper prefix is smaller
RECURSIVE StrLess(_, _)
StrLess(s, t) ==
  IF t = <<>> THEN FALSE
  ELSE IF s = <<>> THEN TRUE
  ELSE IF Ord(Head(s)) # Ord(Head(t)) THEN Ord(Head(s)) < Ord(Head(t))
  ELSE StrLess(Tail(s), Tail(t))

\* slugify(text) of python-slugify with its default arguments, for ASCII
\* text. (Before the references are
\* decoded slugify passes the text through unidecode, which returns ASCII text
\* as it is; the titles slugified here are ASCII.)

\* html.entities.name2codepoint: the names of CHAR_ENTITY_PATTERN with their
\* code points
name2codepoint ==
  {<<<<113, 117, 111, 116>>, 34>>, <<<<97, 109, 112>>, 38>>, <<<<108, 116>>, 60>>,
   <<<<103, 116>>, 62>>, <<<<110, 98, 115, 112>>, 160>>, <<<<105, 101, 120, 99, 108>>, 161>>,
   <<<<99, 101, 110, 116>>, 162>>, <<<<112, 111, 117, 110, 100>>, 163>>, <<<<99, 117, 114, 114, 101, 110>>, 164>>,
   <<<<121, 101, 110>>, 165>>, <<<<98, 114, 118, 98, 97, 114>>, 166>>, <<<<115, 101, 99, 116>>, 167>>,
   <<<<117, 109, 108>>, 168>>, <<<<99, 111, 112, 121>>, 169>>, <<<<111, 114, 100, 102>>, 170>>,
   <<<<108, 97, 113, 117, 111>>, 171>>, <<<<110, 111, 116>>, 172>>, <<<<115, 104, 121>>, 173>>,
   <<<<114, 101, 103>>, 174>>, <<<<109, 97, 99, 114>>, 175>>, <<<<100, 101, 103>>, 176>>,
   <<<<112, 108, 117, 115, 109, 110>>, 177>>, <<<<115, 117, 112, 50>>, 178>>, <<<<115, 117, 112, 51>>, 179>>,
   <<<<97, 99, 117, 116, 101>>, 180>>, <<<<109, 105, 99, 114, 111>>, 181>>, <<<<112, 97, 114, 97>>, 182>>,
   <<<<109, 105, 100, 100, 111, 116>>, 183>>, <<<<99, 101, 100, 105, 108>>, 184>>, <<<<115, 117, 112, 49>>, 185>>,
   <<<<111, 114, 100, 109>>, 186>>, <<<<114, 97, 113, 117, 111>>, 187>>, <<<<102, 114, 97, 99, 49, 52>>, 188>>,
   <<<<102, 114, 97, 99, 49, 50>>, 189>>, <<<<102, 114, 97, 99, 51, 52>>, 190>>, <<<<105, 113, 117, 101, 115, 116>>, 191>>,
   <<<<65, 103, 114, 97, 118, 101>>, 192>>, <<<<65, 97, 99, 117, 116, 101>>, 193>>, <<<<65, 99, 105, 114, 99>>, 194>>,
   <<<<65, 116, 105, 108, 100, 101>>, 195>>, <<<<65, 117, 109, 108>>, 196>>, <<<<65, 114, 105, 110, 103>>, 197>>,
   <<<<65, 69, 108, 105, 103>>, 198>>, <<<<67, 99, 101, 100, 105, 108>>, 199>>, <<<<69, 103, 114, 97, 118, 101>>, 200>>,
   <<<<69, 97, 99, 117, 116, 101>>, 201>>, <<<<69, 99, 105, 114, 99>>, 202>>, <<<<69, 117, 109, 108>>, 203>>,
   <<<<73, 103, 114, 97, 118, 101>>, 204>>, <<<<73, 97, 99, 117, 116, 101>>, 205>>, <<<<73, 99, 105, 114, 99>>, 206>>,
   <<<<73, 117, 109, 108>>, 207>>, <<<<69, 84, 72>>, 208>>, <<<<78, 116, 105, 108, 100, 101>>, 209>>,
   <<<<79, 103, 114, 97, 118, 101>>, 210>>, <<<<79, 97, 99, 117, 116, 101>>, 211>>, <<<<79, 99, 105, 114, 99>>, 212>>,
   <<<<79, 116, 105, 108, 100, 101>>, 213>>, <<<<79, 117, 109, 108>>, 214>>, <<<<116, 105, 109, 101, 115>>, 215>>,
   <<<<79, 115, 108, 97, 115, 104>>, 216>>, <<<<85, 103, 114, 97, 118, 101>>, 217>>, <<<<85, 97, 99, 117, 116, 101>>, 218>>,
   <<<<85, 99, 105, 114, 99>>, 219>>, <<<<85, 117, 109, 108>>, 220>>, <<<<89, 97, 99, 117, 116, 101>>, 221>>,
   <<<<84, 72, 79, 82, 78>>, 222>>, <<<<115, 122, 108, 105, 103>>, 223>>, <<<<97, 103, 114, 97, 118, 101>>, 224>>,
   <<<<97, 97, 99, 117, 116, 101>>, 225>>, <<<<97, 99, 105, 114, 99>>, 226>>, <<<<97, 116, 105, 108, 100, 101>>, 227>>,
   <<<<97, 117, 109, 108>>, 228>>, <<<<97, 114, 105, 110, 103>>, 229>>, <<<<97, 101, 108, 105, 103>>, 230>>,
   <<<<99, 99, 101, 100, 105, 108>>, 231>>, <<<<101, 103, 114, 97, 118, 101>>, 232>>, <<<<101, 97, 99, 117, 116, 101>>, 233>>,
   <<<<101, 99, 105, 114, 99>>, 234>>, <<<<101, 117, 109, 108>>, 235>>, <<<<105, 103, 114, 97, 118, 101>>, 236>>,
   <<<<105, 97, 99, 117, 116, 101>>, 237>>, <<<<105, 99, 105, 114, 99>>, 238>>, <<<<105, 117, 109, 108>>, 239>>,
   <<<<101, 116, 104>>, 240>>, <<<<110, 116, 105, 108, 100, 101>>, 241>>, <<<<111, 103, 114, 97, 118, 101>>, 242>>,
   <<<<111, 97, 99, 117, 116, 101>>, 243>>, <<<<111, 99, 105, 114, 99>>, 244>>, <<<<111, 116, 105, 108, 100, 101>>, 245>>,
   <<<<111, 117, 109, 108>>, 246>>, <<<<100, 105, 118, 105, 100, 101>>, 247>>, <<<<111, 115, 108, 97, 115, 104>>, 248>>,
   <<<<117, 103, 114, 97, 118, 101>>, 249>>, <<<<117, 97, 99, 117, 116, 101>>, 250>>, <<<<117, 99, 105, 114, 99>>, 251>>,
   <<<<117, 117, 109, 108>>, 252>>, <<<<121, 97, 99, 117, 116, 101>>, 253>>, <<<<116, 104, 111, 114, 110>>, 254>>,
   <<<<121, 117, 109, 108>>, 255>>, <<<<79, 69, 108, 105, 103>>, 338>>, <<<<111, 101, 108, 105, 103>>, 339>>,
   <<<<83, 99, 97, 114, 111, 110>>, 352>>, <<<<115, 99, 97, 114, 111, 110>>, 353>>, <<<<89, 117, 109, 108>>, 376>>,
   <<<<102, 110, 111, 102>>, 402>>, <<<<99, 105, 114, 99>>, 710>>, <<<<116, 105, 108, 100, 101>>, 732>>,
   <<<<65, 108, 112, 104, 97>>, 913>>, <<<<66, 101, 116, 97>>, 914>>, <<<<71, 97, 109, 109, 97>>, 915>>,
   <<<<68, 101, 108, 116, 97>>, 916>>, <<<<69, 112, 115, 105, 108, 111, 110>>, 917>>, <<<<90, 101, 116, 97>>, 918>>,
   <<<<69, 116, 97>>, 919>>, <<<<84, 104, 101, 116, 97>>, 920>>, <<<<73, 111, 116, 97>>, 921>>,
   <<<<75, 97, 112, 112, 97>>, 922>>, <<<<76, 97, 109, 98, 100, 97>>, 923>>, <<<<77, 117>>, 924>>,
   <<<<78, 117>>, 925>>, <<<<88, 105>>, 926>>, <<<<79, 109, 105, 99, 114, 111, 110>>, 927>>,
   <<<<80, 105>>, 928>>, <<<<82, 104, 111>>, 929>>, <<<<83, 105, 103, 109, 97>>, 931>>,
   <<<<84, 97, 117>>, 932>>, <<<<85, 112, 115, 105, 108, 111, 110>>, 933>>, <<<<80, 104, 105>>, 934>>,
   <<<<67, 104, 105>>, 935>>, <<<<80, 115, 105>>, 936>>, <<<<79, 109, 101, 103, 97>>, 937>>,
   <<<<97, 108, 112, 104, 97>>, 945>>, <<<<98, 101, 116, 97>>, 946>>, <<<<103, 97, 109, 109, 97>>, 947>>,
   <<<<100, 101, 108, 116, 97>>, 948>>, <<<<101, 112, 115, 105, 108, 111, 110>>, 949>>, <<<<122, 101, 116, 97>>, 950>>,
   <<<<101, 116, 97>>, 951>>, <<<<116, 104, 101, 116, 97>>, 952>>, <<<<105, 111, 116, 97>>, 953>>,
   <<<<107, 97, 112, 112, 97>>, 954>>, <<<<108, 97, 109, 98, 100, 97>>, 955>>, <<<<109, 117>>, 956>>,
   <<<<110, 117>>, 957>>, <<<<120, 105>>, 958>>, <<<<111, 109, 105, 99, 114, 111, 110>>, 959>>,
   <<<<112, 105>>, 960>>, <<<<114, 104, 111>>, 961>>, <<<<115, 105, 103, 109, 97, 102>>, 962>>,
   <<<<115, 105, 103, 109, 97>>, 963>>, <<<<116, 97, 117>>, 964>>, <<<<117, 112, 115, 105, 108, 111, 110>>, 965>>,
   <<<<112, 104, 105>>, 966>>, <<<<99, 104, 105>>, 967>>, <<<<112, 115, 105>>, 968>>,
   <<<<111, 109, 101, 103, 97>>, 969>>, <<<<116, 104, 101, 116, 97, 115, 121, 109>>, 977>>, <<<<117, 112, 115, 105, 104>>, 978>>,
   <<<<112, 105, 118>>, 982>>, <<<<101, 110, 115, 112>>, 8194>>, <<<<101, 109, 115, 112>>, 8195>>,
   <<<<116, 104, 105, 110, 115, 112>>, 8201>>, <<<<122, 119, 110, 106>>, 8204>>, <<<<122, 119, 106>>, 8205>>,
   <<<<108, 114, 109>>, 8206>>, <<<<114, 108, 109>>, 8207>>, <<<<110, 100, 97, 115, 104>>, 8211>>,
   <<<<109, 100, 97, 115, 104>>, 8212>>, <<<<108, 115, 113, 117, 111>>, 8216>>, <<<<114, 115, 113, 117, 111>>, 8217>>,
   <<<<115, 98, 113, 117, 111>>, 8218>>, <<<<108, 100, 113, 117, 111>>, 8220>>, <<<<114, 100, 113, 117, 111>>, 8221>>,
   <<<<98, 100, 113, 117, 111>>, 8222>>, <<<<100, 97, 103, 103, 101, 114>>, 8224>>, <<<<68, 97, 103, 103, 101, 114>>, 8225>>,
   <<<<98, 117, 108, 108>>, 8226>>, <<<<104, 101, 108, 108, 105, 112>>, 8230>>, <<<<112, 101, 114, 109, 105, 108>>, 8240>>,
   <<<<112, 114, 105, 109, 101>>, 8242>>, <<<<80, 114, 105, 109, 101>>, 8243>>, <<<<108, 115, 97, 113, 117, 111>>, 8249>>,
   <<<<114, 115, 97, 113, 117, 111>>, 8250>>, <<<<111, 108, 105, 110, 101>>, 8254>>, <<<<102, 114, 97, 115, 108>>, 8260>>,
   <<<<101, 117, 114, 111>>, 8364>>, <<<<105, 109, 97, 103, 101>>, 8465>>, <<<<119, 101, 105, 101, 114, 112>>, 8472>>,
   <<<<114, 101, 97, 108>>, 8476>>, <<<<116, 114, 97, 100, 101>>, 8482>>, <<<<97, 108, 101, 102, 115, 121, 109>>, 8501>>,
   <<<<108, 97, 114, 114>>, 8592>>, <<<<117, 97, 114, 114>>, 8593>>, <<<<114, 97, 114, 114>>, 8594>>,
   <<<<100, 97, 114, 114>>, 8595>>, <<<<104, 97, 114, 114>>, 8596>>, <<<<99, 114, 97, 114, 114>>, 8629>>,
   <<<<108, 65, 114, 114>>, 8656>>, <<<<117, 65, 114, 114>>, 8657>>, <<<<114, 65, 114, 114>>, 8658>>,
   <<<<100, 65, 114, 114>>, 8659>>, <<<<104, 65, 114, 114>>, 8660>>, <<<<102, 111, 114, 97, 108, 108>>, 8704>>,
   <<<<112, 97, 114, 116>>, 8706>>, <<<<101, 120, 105, 115, 116>>, 8707>>, <<<<101, 109, 112, 116, 121>>, 8709>>,
   <<<<110, 97, 98, 108, 97>>, 8711>>, <<<<105, 115, 105, 110>>, 8712>>, <<<<110, 111, 116, 105, 110>>, 8713>>,
   <<<<110, 105>>, 8715>>, <<<<112, 114, 111, 100>>, 8719>>, <<<<115, 117, 109>>, 8721>>,
   <<<<109, 105, 110, 117, 115>>, 8722>>, <<<<108, 111, 119, 97, 115, 116>>, 8727>>, <<<<114, 97, 100, 105, 99>>, 8730>>,
   <<<<112, 114, 111, 112>>, 8733>>, <<<<105, 110, 102, 105, 110>>, 8734>>, <<<<97, 110, 103>>, 8736>>,
   <<<<97, 110, 100>>, 8743>>, <<<<111, 114>>, 8744>>, <<<<99, 97, 112>>, 8745>>,
   <<<<99, 117, 112>>, 8746>>, <<<<105, 110, 116>>, 8747>>, <<<<116, 104, 101, 114, 101, 52>>, 8756>>,
   <<<<115, 105, 109>>, 8764>>, <<<<99, 111, 110, 103>>, 8773>>, <<<<97, 115, 121, 109, 112>>, 8776>>,
   <<<<110, 101>>, 8800>>, <<<<101, 113, 117, 105, 118>>, 8801>>, <<<<108, 101>>, 8804>>,
   <<<<103, 101>>, 8805>>, <<<<115, 117, 98>>, 8834>>, <<<<115, 117, 112>>, 8835>>,
   <<<<110, 115, 117, 98>>, 8836>>, <<<<115, 117, 98, 101>>, 8838>>, <<<<115, 117, 112, 101>>, 8839>>,
   <<<<111, 112, 108, 117, 115>>, 8853>>, <<<<111, 116, 105, 109, 101, 115>>, 8855>>, <<<<112, 101, 114, 112>>, 8869>>,
   <<<<115, 100, 111, 116>>, 8901>>, <<<<108, 99, 101, 105, 108>>, 8968>>, <<<<114, 99, 101, 105, 108>>, 8969>>,
   <<<<108, 102, 108, 111, 111, 114>>, 8970>>, <<<<114, 102, 108, 111, 111, 114>>, 8971>>, <<<<108, 97, 110, 103>>, 9001>>,
   <<<<114, 97, 110, 103>>, 9002>>, <<<<108, 111, 122>>, 9674>>, <<<<115, 112, 97, 100, 101, 115>>, 9824>>,
   <<<<99, 108, 117, 98, 115>>, 9827>>, <<<<104, 101, 97, 114, 116, 115>>, 9829>>, <<<<100, 105, 97, 109, 115>>, 9830>>}

\* str.isdecimal(), the class \d of the patterns and the digits int()
\* accepts: the ten code points from each of these zeros on
DecimalZeros ==
  {48, 1632, 1776, 1984, 2406, 2534, 2662, 2790, 2918, 3046,
   3174, 3302, 3430, 3558, 3664, 3792, 3872, 4160, 4240, 6112,
   6160, 6470, 6608, 6784, 6800, 6992, 7088, 7232, 7248, 42528,
   43216, 43264, 43472, 43504, 43600, 44016, 65296, 66720, 68912, 69734,
   69872, 69942, 70096, 70384, 70736, 70864, 71248, 71360, 71472, 71904,
   72016, 72784, 73040, 73120, 92768, 92864, 93008, 120782, 120792, 120802,
   120812, 120822, 123200, 123632, 125264, 130032}

\* unicodedata.normalize('NFKD', c) for the code points c above ASCII whose
\* decomposition contains ASCII characters, each run of characters outside
\* ASCII in it written as the one character U+0080; the code points not
\* listed decompose into characters outside ASCII only.
\* NfkdRuns <<first, last, delta>>: c of first..last decomposes into c + delta
NfkdRuns ==
  {<<7475, 7482, -7404>>, <<8308, 8313, -8256>>, <<8320, 8329, -8272>>, <<8342, 8345, -8235>>,
   <<8473, 8475, -8393>>, <<9312, 9320, -9263>>, <<9398, 9423, -9333>>, <<9424, 9449, -9327>>,
   <<65281, 65374, -65248>>, <<119808, 119833, -119743>>, <<119834, 119859, -119737>>, <<119860, 119885, -119795>>,
   <<119886, 119892, -119789>>, <<119894, 119911, -119789>>, <<119912, 119937, -119847>>, <<119938, 119963, -119841>>,
   <<119977, 119980, -119899>>, <<119982, 119989, -119899>>, <<119990, 119993, -119893>>, <<119997, 120003, -119893>>,
   <<120005, 120015, -119893>>, <<120016, 120041, -119951>>, <<120042, 120067, -119945>>, <<120071, 120074, -120003>>,
   <<120077, 120084, -120003>>, <<120086, 120092, -120003>>, <<120094, 120119, -119997>>, <<120123, 120126, -120055>>,
   <<120128, 120132, -120055>>, <<120138, 120144, -120055>>, <<120146, 120171, -120049>>, <<120172, 120197, -120107>>,
   <<120198, 120223, -120101>>, <<120224, 120249, -120159>>, <<120250, 120275, -120153>>, <<120276, 120301, -120211>>,
   <<120302, 120327, -120205>>, <<120328, 120353, -120263>>, <<120354, 120379, -120257>>, <<120380, 120405, -120315>>,
   <<120406, 120431, -120309>>, <<120432, 120457, -120367>>, <<120458, 120483, -120361>>, <<120782, 120791, -120734>>,
   <<120792, 120801, -120744>>, <<120802, 120811, -120754>>, <<120812, 120821, -120764>>, <<120822, 120831, -120774>>,
   <<127280, 127305, -127215>>, <<130032, 130041, -129984>>}

\* NfkdImages <<first, last, image>>: every c of first..last decomposes into
\* image
NfkdImages ==
  {<<160, 160, <<32>>>>, <<168, 168, <<32, 128>>>>, <<170, 170, <<97>>>>,
   <<175, 175, <<32, 128>>>>, <<178, 178, <<50>>>>, <<179, 179, <<51>>>>,
   <<180, 180, <<32, 128>>>>, <<184, 184, <<32, 128>>>>, <<185, 185, <<49>>>>,
   <<186, 186, <<111>>>>, <<188, 188, <<49, 128, 52>>>>, <<189, 189, <<49, 128, 50>>>>,
   <<190, 190, <<51, 128, 52>>>>, <<192, 197, <<65, 128>>>>, <<199, 199, <<67, 128>>>>,
   <<200, 203, <<69, 128>>>>, <<204, 207, <<73, 128>>>>, <<209, 209, <<78, 128>>>>,
   <<210, 214, <<79, 128>>>>, <<217, 220, <<85, 128>>>>, <<221, 221, <<89, 128>>>>,
   <<224, 229, <<97, 128>>>>, <<231, 231, <<99, 128>>>>, <<232, 235, <<101, 128>>>>,
   <<236, 239, <<105, 128>>>>, <<241, 241, <<110, 128>>>>, <<242, 246, <<111, 128>>>>,
   <<249, 252, <<117, 128>>>>, <<253, 253, <<121, 128>>>>, <<255, 255, <<121, 128>>>>,
   <<256, 256, <<65, 128>>>>, <<257, 257, <<97, 128>>>>, <<258, 258, <<65, 128>>>>,
   <<259, 259, <<97, 128>>>>, <<260, 260, <<65, 128>>>>, <<261, 261, <<97, 128>>>>,
   <<262, 262, <<67, 128>>>>, <<263, 263, <<99, 128>>>>, <<264, 264, <<67, 128>>>>,
   <<265, 265, <<99, 128>>>>, <<266, 266, <<67, 128>>>>, <<267, 267, <<99, 128>>>>,
   <<268, 268, <<67, 128>>>>, <<269, 269, <<99, 128>>>>, <<270, 270, <<68, 128>>>>,
   <<271, 271, <<100, 128>>>>, <<274, 274, <<69, 128>>>>, <<275, 275, <<101, 128>>>>,
   <<276, 276, <<69, 128>>>>, <<277, 277, <<101, 128>>>>, <<278, 278, <<69, 128>>>>,
   <<279, 279, <<101, 128>>>>, <<280, 280, <<69, 128>>>>, <<281, 281, <<101, 128>>>>,
   <<282, 282, <<69, 128>>>>, <<283, 283, <<101, 128>>>>, <<284, 284, <<71, 128>>>>,
   <<285, 285, <<103, 128>>>>, <<286, 286, <<71, 128>>>>, <<287, 287, <<103, 128>>>>,
   <<288, 288, <<71, 128>>>>, <<289, 289, <<103, 128>>>>, <<290, 290, <<71, 128>>>>,
   <<291, 291, <<103, 128>>>>, <<292, 292, <<72, 128>>>>, <<293, 293, <<104, 128>>>>,
   <<296, 296, <<73, 128>>>>, <<297, 297, <<105, 128>>>>, <<298, 298, <<73, 128>>>>,
   <<299, 299, <<105, 128>>>>, <<300, 300, <<73, 128>>>>, <<301, 301, <<105, 128>>>>,
   <<302, 302, <<73, 128>>>>, <<303, 303, <<105, 128>>>>, <<304, 304, <<73, 128>>>>,
   <<306, 306, <<73, 74>>>>, <<307, 307, <<105, 106>>>>, <<308, 308, <<74, 128>>>>,
   <<309, 309, <<106, 128>>>>, <<310, 310, <<75, 128>>>>, <<311, 311, <<107, 128>>>>,
   <<313, 313, <<76, 128>>>>, <<314, 314, <<108, 128>>>>, <<315, 315, <<76, 128>>>>,
   <<316, 316, <<108, 128>>>>, <<317, 317, <<76, 128>>>>, <<318, 318, <<108, 128>>>>,
   <<319, 319, <<76, 128>>>>, <<320, 320, <<108, 128>>>>, <<323, 323, <<78, 128>>>>,
   <<324, 324, <<110, 128>>>>, <<325, 325, <<78, 128>>>>, <<326, 326, <<110, 128>>>>,
   <<327, 327, <<78, 128>>>>, <<328, 328, <<110, 128>>>>, <<329, 329, <<128, 110>>>>,
   <<332, 332, <<79, 128>>>>, <<333, 333, <<111, 128>>>>, <<334, 334, <<79, 128>>>>,
   <<335, 335, <<111, 128>>>>, <<336, 336, <<79, 128>>>>, <<337, 337, <<111, 128>>>>,
   <<340, 340, <<82, 128>>>>, <<341, 341, <<114, 128>>>>, <<342, 342, <<82, 128>>>>,
   <<343, 343, <<114, 128>>>>, <<344, 344, <<82, 128>>>>, <<345, 345, <<114, 128>>>>,
   <<346, 346, <<83, 128>>>>, <<347, 347, <<115, 128>>>>, <<348, 348, <<83, 128>>>>,
   <<349, 349, <<115, 128>>>>, <<350, 350, <<83, 128>>>>, <<351, 351, <<115, 128>>>>,
   <<352, 352, <<83, 128>>>>, <<353, 353, <<115, 128>>>>, <<354, 354, <<84, 128>>>>,
   <<355, 355, <<116, 128>>>>, <<356, 356, <<84, 128>>>>, <<357, 357, <<116, 128>>>>,
   <<360, 360, <<85, 128>>>>, <<361, 361, <<117, 128>>>>, <<362, 362, <<85, 128>>>>,
   <<363, 363, <<117, 128>>>>, <<364, 364, <<85, 128>>>>, <<365, 365, <<117, 128>>>>,
   <<366, 366, <<85, 128>>>>, <<367, 367, <<117, 128>>>>, <<368, 368, <<85, 128>>>>,
   <<369, 369, <<117, 128>>>>, <<370, 370, <<85, 128>>>>, <<371, 371, <<117, 128>>>>,
   <<372, 372, <<87, 128>>>>, <<373, 373, <<119, 128>>>>, <<374, 374, <<89, 128>>>>,
   <<375, 375, <<121, 128>>>>, <<376, 376, <<89, 128>>>>, <<377, 377, <<90, 128>>>>,
   <<378, 378, <<122, 128>>>>, <<379, 379, <<90, 128>>>>, <<380, 380, <<122, 128>>>>,
   <<381, 381, <<90, 128>>>>, <<382, 382, <<122, 128>>>>, <<383, 383, <<115>>>>,
   <<416, 416, <<79, 128>>>>, <<417, 417, <<111, 128>>>>, <<431, 431, <<85, 128>>>>,
   <<432, 432, <<117, 128>>>>, <<452, 452, <<68, 90, 128>>>>, <<453, 453, <<68, 122, 128>>>>,
   <<454, 454, <<100, 122, 128>>>>, <<455, 455, <<76, 74>>>>, <<456, 456, <<76, 106>>>>,
   <<457, 457, <<108, 106>>>>, <<458, 458, <<78, 74>>>>, <<459, 459, <<78, 106>>>>,
   <<460, 460, <<110, 106>>>>, <<461, 461, <<65, 128>>>>, <<462, 462, <<97, 128>>>>,
   <<463, 463, <<73, 128>>>>, <<464, 464, <<105, 128>>>>, <<465, 465, <<79, 128>>>>,
   <<466, 466, <<111, 128>>>>, <<467, 467, <<85, 128>>>>, <<468, 468, <<117, 128>>>>,
   <<469, 469, <<85, 128>>>>, <<470, 470, <<117, 128>>>>, <<471, 471, <<85, 128>>>>,
   <<472, 472, <<117, 128>>>>, <<473, 473, <<85, 128>>>>, <<474, 474, <<117, 128>>>>,
   <<475, 475, <<85, 128>>>>, <<476, 476, <<117, 128>>>>, <<478, 478, <<65, 128>>>>,
   <<479, 479, <<97, 128>>>>, <<480, 480, <<65, 128>>>>, <<481, 481, <<97, 128>>>>,
   <<486, 486, <<71, 128>>>>, <<487, 487, <<103, 128>>>>, <<488, 488, <<75, 128>>>>,
   <<489, 489, <<107, 128>>>>, <<490, 490, <<79, 128>>>>, <<491, 491, <<111, 128>>>>,
   <<492, 492, <<79, 128>>>>, <<493, 493, <<111, 128>>>>, <<496, 496, <<106, 128>>>>,
   <<497, 497, <<68, 90>>>>, <<498, 498, <<68, 122>>>>, <<499, 499, <<100, 122>>>>,
   <<500, 500, <<71, 128>>>>, <<501, 501, <<103, 128>>>>, <<504, 504, <<78, 128>>>>,
   <<505, 505, <<110, 128>>>>, <<506, 506, <<65, 128>>>>, <<507, 507, <<97, 128>>>>,
   <<512, 512, <<65, 128>>>>, <<513, 513, <<97, 128>>>>, <<514, 514, <<65, 128>>>>,
   <<515, 515, <<97, 128>>>>, <<516, 516, <<69, 128>>>>, <<517, 517, <<101, 128>>>>,
   <<518, 518, <<69, 128>>>>, <<519, 519, <<101, 128>>>>, <<520, 520, <<73, 128>>>>,
   <<521, 521, <<105, 128>>>>, <<522, 522, <<73, 128>>>>, <<523, 523, <<105, 128>>>>,
   <<524, 524, <<79, 128>>>>, <<525, 525, <<111, 128>>>>, <<526, 526, <<79, 128>>>>,
   <<527, 527, <<111, 128>>>>, <<528, 528, <<82, 128>>>>, <<529, 529, <<114, 128>>>>,
   <<530, 530, <<82, 128>>>>, <<531, 531, <<114, 128>>>>, <<532, 532, <<85, 128>>>>,
   <<533, 533, <<117, 128>>>>, <<534, 534, <<85, 128>>>>, <<535, 535, <<117, 128>>>>,
   <<536, 536, <<83, 128>>>>, <<537, 537, <<115, 128>>>>, <<538, 538, <<84, 128>>>>,
   <<539, 539, <<116, 128>>>>, <<542, 542, <<72, 128>>>>, <<543, 543, <<104, 128>>>>,
   <<550, 550, <<65, 128>>>>, <<551, 551, <<97, 128>>>>, <<552, 552, <<69, 128>>>>,
   <<553, 553, <<101, 128>>>>, <<554, 554, <<79, 128>>>>, <<555, 555, <<111, 128>>>>,
   <<556, 556, <<79, 128>>>>, <<557, 557, <<111, 128>>>>, <<558, 558, <<79, 128>>>>,
   <<559, 559, <<111, 128>>>>, <<560, 560, <<79, 128>>>>, <<561, 561, <<111, 128>>>>,
   <<562, 562, <<89, 128>>>>, <<563, 563, <<121, 128>>>>, <<688, 688, <<104>>>>,
   <<690, 690, <<106>>>>, <<691, 691, <<114>>>>, <<695, 695, <<119>>>>,
   <<696, 696, <<121>>>>, <<728, 733, <<32, 128>>>>, <<737, 737, <<108>>>>,
   <<738, 738, <<115>>>>, <<739, 739, <<120>>>>, <<890, 890, <<32, 128>>>>,
   <<894, 894, <<59>>>>, <<900, 901, <<32, 128>>>>, <<7468, 7468, <<65>>>>,
   <<7470, 7470, <<66>>>>, <<7472, 7472, <<68>>>>, <<7473, 7473, <<69>>>>,
   <<7484, 7484, <<79>>>>, <<7486, 7486, <<80>>>>, <<7487, 7487, <<82>>>>,
   <<7488, 7488, <<84>>>>, <<7489, 7489, <<85>>>>, <<7490, 7490, <<87>>>>,
   <<7491, 7491, <<97>>>>, <<7495, 7495, <<98>>>>, <<7496, 7496, <<100>>>>,
   <<7497, 7497, <<101>>>>, <<7501, 7501, <<103>>>>, <<7503, 7503, <<107>>>>,
   <<7504, 7504, <<109>>>>, <<7506, 7506, <<111>>>>, <<7510, 7510, <<112>>>>,
   <<7511, 7511, <<116>>>>, <<7512, 7512, <<117>>>>, <<7515, 7515, <<118>>>>,
   <<7522, 7522, <<105>>>>, <<7523, 7523, <<114>>>>, <<7524, 7524, <<117>>>>,
   <<7525, 7525, <<118>>>>, <<7580, 7580, <<99>>>>, <<7584, 7584, <<102>>>>,
   <<7611, 7611, <<122>>>>, <<7680, 7680, <<65, 128>>>>, <<7681, 7681, <<97, 128>>>>,
   <<7682, 7682, <<66, 128>>>>, <<7683, 7683, <<98, 128>>>>, <<7684, 7684, <<66, 128>>>>,
   <<7685, 7685, <<98, 128>>>>, <<7686, 7686, <<66, 128>>>>, <<7687, 7687, <<98, 128>>>>,
   <<7688, 7688, <<67, 128>>>>, <<7689, 7689, <<99, 128>>>>, <<7690, 7690, <<68, 128>>>>,
   <<7691, 7691, <<100, 128>>>>, <<7692, 7692, <<68, 128>>>>, <<7693, 7693, <<100, 128>>>>,
   <<7694, 7694, <<68, 128>>>>, <<7695, 7695, <<100, 128>>>>, <<7696, 7696, <<68, 128>>>>,
   <<7697, 7697, <<100, 128>>>>, <<7698, 7698, <<68, 128>>>>, <<7699, 7699, <<100, 128>>>>,
   <<7700, 7700, <<69, 128>>>>, <<7701, 7701, <<101, 128>>>>, <<7702, 7702, <<69, 128>>>>,
   <<7703, 7703, <<101, 128>>>>, <<7704, 7704, <<69, 128>>>>, <<7705, 7705, <<101, 128>>>>,
   <<7706, 7706, <<69, 128>>>>, <<7707, 7707, <<101, 128>>>>, <<7708, 7708, <<69, 128>>>>,
   <<7709, 7709, <<101, 128>>>>, <<7710, 7710, <<70, 128>>>>, <<7711, 7711, <<102, 128>>>>,
   <<7712, 7712, <<71, 128>>>>, <<7713, 7713, <<103, 128>>>>, <<7714, 7714, <<72, 128>>>>,
   <<7715, 7715, <<104, 128>>>>, <<7716, 7716, <<72, 128>>>>, <<7717, 7717, <<104, 128>>>>,
   <<7718, 7718, <<72, 128>>>>, <<7719, 7719, <<104, 128>>>>, <<7720, 7720, <<72, 128>>>>,
   <<7721, 7721, <<104, 128>>>>, <<7722, 7722, <<72, 128>>>>, <<7723, 7723, <<104, 128>>>>,
   <<7724, 7724, <<73, 128>>>>, <<7725, 7725, <<105, 128>>>>, <<7726, 7726, <<73, 128>>>>,
   <<7727, 7727, <<105, 128>>>>, <<7728, 7728, <<75, 128>>>>, <<7729, 7729, <<107, 128>>>>,
   <<7730, 7730, <<75, 128>>>>, <<7731, 7731, <<107, 128>>>>, <<7732, 7732, <<75, 128>>>>,
   <<7733, 7733, <<107, 128>>>>, <<7734, 7734, <<76, 128>>>>, <<7735, 7735, <<108, 128>>>>,
   <<7736, 7736, <<76, 128>>>>, <<7737, 7737, <<108, 128>>>>, <<7738, 7738, <<76, 128>>>>,
   <<7739, 7739, <<108, 128>>>>, <<7740, 7740, <<76, 128>>>>, <<7741, 7741, <<108, 128>>>>,
   <<7742, 7742, <<77, 128>>>>, <<7743, 7743, <<109, 128>>>>, <<7744, 7744, <<77, 128>>>>,
   <<7745, 7745, <<109, 128>>>>, <<7746, 7746, <<77, 128>>>>, <<7747, 7747, <<109, 128>>>>,
   <<7748, 7748, <<78, 128>>>>, <<7749, 7749, <<110, 128>>>>, <<7750, 7750, <<78, 128>>>>,
   <<7751, 7751, <<110, 128>>>>, <<7752, 7752, <<78, 128>>>>, <<7753, 7753, <<110, 128>>>>,
   <<7754, 7754, <<78, 128>>>>, <<7755, 7755, <<110, 128>>>>, <<7756, 7756, <<79, 128>>>>,
   <<7757, 7757, <<111, 128>>>>, <<7758, 7758, <<79, 128>>>>, <<7759, 7759, <<111, 128>>>>,
   <<7760, 7760, <<79, 128>>>>, <<7761, 7761, <<111, 128>>>>, <<7762, 7762, <<79, 128>>>>,
   <<7763, 7763, <<111, 128>>>>, <<7764, 7764, <<80, 128>>>>, <<7765, 7765, <<112, 128>>>>,
   <<7766, 7766, <<80, 128>>>>, <<7767, 7767, <<112, 128>>>>, <<7768, 7768, <<82, 128>>>>,
   <<7769, 7769, <<114, 128>>>>, <<7770, 7770, <<82, 128>>>>, <<7771, 7771, <<114, 128>>>>,
   <<7772, 7772, <<82, 128>>>>, <<7773, 7773, <<114, 128>>>>, <<7774, 7774, <<82, 128>>>>,
   <<7775, 7775, <<114, 128>>>>, <<7776, 7776, <<83, 128>>>>, <<7777, 7777, <<115, 128>>>>,
   <<7778, 7778, <<83, 128>>>>, <<7779, 7779, <<115, 128>>>>, <<7780, 7780, <<83, 128>>>>,
   <<7781, 7781, <<115, 128>>>>, <<7782, 7782, <<83, 128>>>>, <<7783, 7783, <<115, 128>>>>,
   <<7784, 7784, <<83, 128>>>>, <<7785, 7785, <<115, 128>>>>, <<7786, 7786, <<84, 128>>>>,
   <<7787, 7787, <<116, 128>>>>, <<7788, 7788, <<84, 128>>>>, <<7789, 7789, <<116, 128>>>>,
   <<7790, 7790, <<84, 128>>>>, <<7791, 7791, <<116, 128>>>>, <<7792, 7792, <<84, 128>>>>,
   <<7793, 7793, <<116, 128>>>>, <<7794, 7794, <<85, 128>>>>, <<7795, 7795, <<117, 128>>>>,
   <<7796, 7796, <<85, 128>>>>, <<7797, 7797, <<117, 128>>>>, <<7798, 7798, <<85, 128>>>>,
   <<7799, 7799, <<117, 128>>>>, <<7800, 7800, <<85, 128>>>>, <<7801, 7801, <<117, 128>>>>,
   <<7802, 7802, <<85, 128>>>>, <<7803, 7803, <<117, 128>>>>, <<7804, 7804, <<86, 128>>>>,
   <<7805, 7805, <<118, 128>>>>, <<7806, 7806, <<86, 128>>>>, <<7807, 7807, <<118, 128>>>>,
   <<7808, 7808, <<87, 128>>>>, <<7809, 7809, <<119, 128>>>>, <<7810, 7810, <<87, 128>>>>,
   <<7811, 7811, <<119, 128>>>>, <<7812, 7812, <<87, 128>>>>, <<7813, 7813, <<119, 128>>>>,
   <<7814, 7814, <<87, 128>>>>, <<7815, 7815, <<119, 128>>>>, <<7816, 7816, <<87, 128>>>>,
   <<7817, 7817, <<119, 128>>>>, <<7818, 7818, <<88, 128>>>>, <<7819, 7819, <<120, 128>>>>,
   <<7820, 7820, <<88, 128>>>>, <<7821, 7821, <<120, 128>>>>, <<7822, 7822, <<89, 128>>>>,
   <<7823, 7823, <<121, 128>>>>, <<7824, 7824, <<90, 128>>>>, <<7825, 7825, <<122, 128>>>>,
   <<7826, 7826, <<90, 128>>>>, <<7827, 7827, <<122, 128>>>>, <<7828, 7828, <<90, 128>>>>,
   <<7829, 7829, <<122, 128>>>>, <<7830, 7830, <<104, 128>>>>, <<7831, 7831, <<116, 128>>>>,
   <<7832, 7832, <<119, 128>>>>, <<7833, 7833, <<121, 128>>>>, <<7834, 7834, <<97, 128>>>>,
   <<7835, 7835, <<115, 128>>>>, <<7840, 7840, <<65, 128>>>>, <<7841, 7841, <<97, 128>>>>,
   <<7842, 7842, <<65, 128>>>>, <<7843, 7843, <<97, 128>>>>, <<7844, 7844, <<65, 128>>>>,
   <<7845, 7845, <<97, 128>>>>, <<7846, 7846, <<65, 128>>>>, <<7847, 7847, <<97, 128>>>>,
   <<7848, 7848, <<65, 128>>>>, <<7849, 7849, <<97, 128>>>>, <<7850, 7850, <<65, 128>>>>,
   <<7851, 7851, <<97, 128>>>>, <<7852, 7852, <<65, 128>>>>, <<7853, 7853, <<97, 128>>>>,
   <<7854, 7854, <<65, 128>>>>, <<7855, 7855, <<97, 128>>>>, <<7856, 7856, <<65, 128>>>>,
   <<7857, 7857, <<97, 128>>>>, <<7858, 7858, <<65, 128>>>>, <<7859, 7859, <<97, 128>>>>,
   <<7860, 7860, <<65, 128>>>>, <<7861, 7861, <<97, 128>>>>, <<7862, 7862, <<65, 128>>>>,
   <<7863, 7863, <<97, 128>>>>, <<7864, 7864, <<69, 128>>>>, <<7865, 7865, <<101, 128>>>>,
   <<7866, 7866, <<69, 128>>>>, <<7867, 7867, <<101, 128>>>>, <<7868, 7868, <<69, 128>>>>,
   <<7869, 7869, <<101, 128>>>>, <<7870, 7870, <<69, 128>>>>, <<7871, 7871, <<101, 128>>>>,
   <<7872, 7872, <<69, 128>>>>, <<7873, 7873, <<101, 128>>>>, <<7874, 7874, <<69, 128>>>>,
   <<7875, 7875, <<101, 128>>>>, <<7876, 7876, <<69, 128>>>>, <<7877, 7877, <<101, 128>>>>,
   <<7878, 7878, <<69, 128>>>>, <<7879, 7879, <<101, 128>>>>, <<7880, 7880, <<73, 128>>>>,
   <<7881, 7881, <<105, 128>>>>, <<7882, 7882, <<73, 128>>>>, <<7883, 7883, <<105, 128>>>>,
   <<7884, 7884, <<79, 128>>>>, <<7885, 7885, <<111, 128>>>>, <<7886, 7886, <<79, 128>>>>,
   <<7887, 7887, <<111, 128>>>>, <<7888, 7888, <<79, 128>>>>, <<7889, 7889, <<111, 128>>>>,
   <<7890, 7890, <<79, 128>>>>, <<7891, 7891, <<111, 128>>>>, <<7892, 7892, <<79, 128>>>>,
   <<7893, 7893, <<111, 128>>>>, <<7894, 7894, <<79, 128>>>>, <<7895, 7895, <<111, 128>>>>,
   <<7896, 7896, <<79, 128>>>>, <<7897, 7897, <<111, 128>>>>, <<7898, 7898, <<79, 128>>>>,
   <<7899, 7899, <<111, 128>>>>, <<7900, 7900, <<79, 128>>>>, <<7901, 7901, <<111, 128>>>>,
   <<7902, 7902, <<79, 128>>>>, <<7903, 7903, <<111, 128>>>>, <<7904, 7904, <<79, 128>>>>,
   <<7905, 7905, <<111, 128>>>>, <<7906, 7906, <<79, 128>>>>, <<7907, 7907, <<111, 128>>>>,
   <<7908, 7908, <<85, 128>>>>, <<7909, 7909, <<117, 128>>>>, <<7910, 7910, <<85, 128>>>>,
   <<7911, 7911, <<117, 128>>>>, <<7912, 7912, <<85, 128>>>>, <<7913, 7913, <<117, 128>>>>,
   <<7914, 7914, <<85, 128>>>>, <<7915, 7915, <<117, 128>>>>, <<7916, 7916, <<85, 128>>>>,
   <<7917, 7917, <<117, 128>>>>, <<7918, 7918, <<85, 128>>>>, <<7919, 7919, <<117, 128>>>>,
   <<7920, 7920, <<85, 128>>>>, <<7921, 7921, <<117, 128>>>>, <<7922, 7922, <<89, 128>>>>,
   <<7923, 7923, <<121, 128>>>>, <<7924, 7924, <<89, 128>>>>, <<7925, 7925, <<121, 128>>>>,
   <<7926, 7926, <<89, 128>>>>, <<7927, 7927, <<121, 128>>>>, <<7928, 7928, <<89, 128>>>>,
   <<7929, 7929, <<121, 128>>>>, <<8125, 8125, <<32, 128>>>>, <<8127, 8129, <<32, 128>>>>,
   <<8141, 8143, <<32, 128>>>>, <<8157, 8159, <<32, 128>>>>, <<8173, 8174, <<32, 128>>>>,
   <<8175, 8175, <<96>>>>, <<8189, 8190, <<32, 128>>>>, <<8192, 8202, <<32>>>>,
   <<8215, 8215, <<32, 128>>>>, <<8228, 8228, <<46>>>>, <<8229, 8229, <<46, 46>>>>,
   <<8230, 8230, <<46, 46, 46>>>>, <<8239, 8239, <<32>>>>, <<8252, 8252, <<33, 33>>>>,
   <<8254, 8254, <<32, 128>>>>, <<8263, 8263, <<63, 63>>>>, <<8264, 8264, <<63, 33>>>>,
   <<8265, 8265, <<33, 63>>>>, <<8287, 8287, <<32>>>>, <<8304, 8304, <<48>>>>,
   <<8305, 8305, <<105>>>>, <<8314, 8314, <<43>>>>, <<8316, 8316, <<61>>>>,
   <<8317, 8317, <<40>>>>, <<8318, 8318, <<41>>>>, <<8319, 8319, <<110>>>>,
   <<8330, 8330, <<43>>>>, <<8332, 8332, <<61>>>>, <<8333, 8333, <<40>>>>,
   <<8334, 8334, <<41>>>>, <<8336, 8336, <<97>>>>, <<8337, 8337, <<101>>>>,
   <<8338, 8338, <<111>>>>, <<8339, 8339, <<120>>>>, <<8341, 8341, <<104>>>>,
   <<8346, 8346, <<112>>>>, <<8347, 8347, <<115>>>>, <<8348, 8348, <<116>>>>,
   <<8360, 8360, <<82, 115>>>>, <<8448, 8448, <<97, 47, 99>>>>, <<8449, 8449, <<97, 47, 115>>>>,
   <<8450, 8450, <<67>>>>, <<8451, 8451, <<128, 67>>>>, <<8453, 8453, <<99, 47, 111>>>>,
   <<8454, 8454, <<99, 47, 117>>>>, <<8457, 8457, <<128, 70>>>>, <<8458, 8458, <<103>>>>,
   <<8459, 8461, <<72>>>>, <<8462, 8462, <<104>>>>, <<8464, 8465, <<73>>>>,
   <<8466, 8466, <<76>>>>, <<8467, 8467, <<108>>>>, <<8469, 8469, <<78>>>>,
   <<8470, 8470, <<78, 111>>>>, <<8476, 8477, <<82>>>>, <<8480, 8480, <<83, 77>>>>,
   <<8481, 8481, <<84, 69, 76>>>>, <<8482, 8482, <<84, 77>>>>, <<8484, 8484, <<90>>>>,
   <<8488, 8488, <<90>>>>, <<8490, 8490, <<75>>>>, <<8491, 8491, <<65, 128>>>>,
   <<8492, 8492, <<66>>>>, <<8493, 8493, <<67>>>>, <<8495, 8495, <<101>>>>,
   <<8496, 8496, <<69>>>>, <<8497, 8497, <<70>>>>, <<8499, 8499, <<77>>>>,
   <<8500, 8500, <<111>>>>, <<8505, 8505, <<105>>>>, <<8507, 8507, <<70, 65, 88>>>>,
   <<8517, 8517, <<68>>>>, <<8518, 8518, <<100>>>>, <<8519, 8519, <<101>>>>,
   <<8520, 8520, <<105>>>>, <<8521, 8521, <<106>>>>, <<8528, 8528, <<49, 128, 55>>>>,
   <<8529, 8529, <<49, 128, 57>>>>, <<8530, 8530, <<49, 128, 49, 48>>>>, <<8531, 8531, <<49, 128, 51>>>>,
   <<8532, 8532, <<50, 128, 51>>>>, <<8533, 8533, <<49, 128, 53>>>>, <<8534, 8534, <<50, 128, 53>>>>,
   <<8535, 8535, <<51, 128, 53>>>>, <<8536, 8536, <<52, 128, 53>>>>, <<8537, 8537, <<49, 128, 54>>>>,
   <<8538, 8538, <<53, 128, 54>>>>, <<8539, 8539, <<49, 128, 56>>>>, <<8540, 8540, <<51, 128, 56>>>>,
   <<8541, 8541, <<53, 128, 56>>>>, <<8542, 8542, <<55, 128, 56>>>>, <<8543, 8543, <<49, 128>>>>,
   <<8544, 8544, <<73>>>>, <<8545, 8545, <<73, 73>>>>, <<8546, 8546, <<73, 73, 73>>>>,
   <<8547, 8547, <<73, 86>>>>, <<8548, 8548, <<86>>>>, <<8549, 8549, <<86, 73>>>>,
   <<8550, 8550, <<86, 73, 73>>>>, <<8551, 8551, <<86, 73, 73, 73>>>>, <<8552, 8552, <<73, 88>>>>,
   <<8553, 8553, <<88>>>>, <<8554, 8554, <<88, 73>>>>, <<8555, 8555, <<88, 73, 73>>>>,
   <<8556, 8556, <<76>>>>, <<8557, 8557, <<67>>>>, <<8558, 8558, <<68>>>>,
   <<8559, 8559, <<77>>>>, <<8560, 8560, <<105>>>>, <<8561, 8561, <<105, 105>>>>,
   <<8562, 8562, <<105, 105, 105>>>>, <<8563, 8563, <<105, 118>>>>, <<8564, 8564, <<118>>>>,
   <<8565, 8565, <<118, 105>>>>, <<8566, 8566, <<118, 105, 105>>>>, <<8567, 8567, <<118, 105, 105, 105>>>>,
   <<8568, 8568, <<105, 120>>>>, <<8569, 8569, <<120>>>>, <<8570, 8570, <<120, 105>>>>,
   <<8571, 8571, <<120, 105, 105>>>>, <<8572, 8572, <<108>>>>, <<8573, 8573, <<99>>>>,
   <<8574, 8574, <<100>>>>, <<8575, 8575, <<109>>>>, <<8585, 8585, <<48, 128, 51>>>>,
   <<8800, 8800, <<61, 128>>>>, <<8814, 8814, <<60, 128>>>>, <<8815, 8815, <<62, 128>>>>,
   <<9321, 9321, <<49, 48>>>>, <<9322, 9322, <<49, 49>>>>, <<9323, 9323, <<49, 50>>>>,
   <<9324, 9324, <<49, 51>>>>, <<9325, 9325, <<49, 52>>>>, <<9326, 9326, <<49, 53>>>>,
   <<9327, 9327, <<49, 54>>>>, <<9328, 9328, <<49, 55>>>>, <<9329, 9329, <<49, 56>>>>,
   <<9330, 9330, <<49, 57>>>>, <<9331, 9331, <<50, 48>>>>, <<9332, 9332, <<40, 49, 41>>>>,
   <<9333, 9333, <<40, 50, 41>>>>, <<9334, 9334, <<40, 51, 41>>>>, <<9335, 9335, <<40, 52, 41>>>>,
   <<9336, 9336, <<40, 53, 41>>>>, <<9337, 9337, <<40, 54, 41>>>>, <<9338, 9338, <<40, 55, 41>>>>,
   <<9339, 9339, <<40, 56, 41>>>>, <<9340, 9340, <<40, 57, 41>>>>, <<9341, 9341, <<40, 49, 48, 41>>>>,
   <<9342, 9342, <<40, 49, 49, 41>>>>, <<9343, 9343, <<40, 49, 50, 41>>>>, <<9344, 9344, <<40, 49, 51, 41>>>>,
   <<9345, 9345, <<40, 49, 52, 41>>>>, <<9346, 9346, <<40, 49, 53, 41>>>>, <<9347, 9347, <<40, 49, 54, 41>>>>,
   <<9348, 9348, <<40, 49, 55, 41>>>>, <<9349, 9349, <<40, 49, 56, 41>>>>, <<9350, 9350, <<40, 49, 57, 41>>>>,
   <<9351, 9351, <<40, 50, 48, 41>>>>, <<9352, 9352, <<49, 46>>>>, <<9353, 9353, <<50, 46>>>>,
   <<9354, 9354, <<51, 46>>>>, <<9355, 9355, <<52, 46>>>>, <<9356, 9356, <<53, 46>>>>,
   <<9357, 9357, <<54, 46>>>>, <<9358, 9358, <<55, 46>>>>, <<9359, 9359, <<56, 46>>>>,
   <<9360, 9360, <<57, 46>>>>, <<9361, 9361, <<49, 48, 46>>>>, <<9362, 9362, <<49, 49, 46>>>>,
   <<9363, 9363, <<49, 50, 46>>>>, <<9364, 9364, <<49, 51, 46>>>>, <<9365, 9365, <<49, 52, 46>>>>,
   <<9366, 9366, <<49, 53, 46>>>>, <<9367, 9367, <<49, 54, 46>>>>, <<9368, 9368, <<49, 55, 46>>>>,
   <<9369, 9369, <<49, 56, 46>>>>, <<9370, 9370, <<49, 57, 46>>>>, <<9371, 9371, <<50, 48, 46>>>>,
   <<9372, 9372, <<40, 97, 41>>>>, <<9373, 9373, <<40, 98, 41>>>>, <<9374, 9374, <<40, 99, 41>>>>,
   <<9375, 9375, <<40, 100, 41>>>>, <<9376, 9376, <<40, 101, 41>>>>, <<9377, 9377, <<40, 102, 41>>>>,
   <<9378, 9378, <<40, 103, 41>>>>, <<9379, 9379, <<40, 104, 41>>>>, <<9380, 9380, <<40, 105, 41>>>>,
   <<9381, 9381, <<40, 106, 41>>>>, <<9382, 9382, <<40, 107, 41>>>>, <<9383, 9383, <<40, 108, 41>>>>,
   <<9384, 9384, <<40, 109, 41>>>>, <<9385, 9385, <<40, 110, 41>>>>, <<9386, 9386, <<40, 111, 41>>>>,
   <<9387, 9387, <<40, 112, 41>>>>, <<9388, 9388, <<40, 113, 41>>>>, <<9389, 9389, <<40, 114, 41>>>>,
   <<9390, 9390, <<40, 115, 41>>>>, <<9391, 9391, <<40, 116, 41>>>>, <<9392, 9392, <<40, 117, 41>>>>,
   <<9393, 9393, <<40, 118, 41>>>>, <<9394, 9394, <<40, 119, 41>>>>, <<9395, 9395, <<40, 120, 41>>>>,
   <<9396, 9396, <<40, 121, 41>>>>, <<9397, 9397, <<40, 122, 41>>>>, <<9450, 9450, <<48>>>>,
   <<10868, 10868, <<58, 58, 61>>>>, <<10869, 10869, <<61, 61>>>>, <<10870, 10870, <<61, 61, 61>>>>,
   <<11388, 11388, <<106>>>>, <<11389, 11389, <<86>>>>, <<12288, 12288, <<32>>>>,
   <<12443, 12444, <<32, 128>>>>, <<12800, 12830, <<40, 128, 41>>>>, <<12832, 12867, <<40, 128, 41>>>>,
   <<12880, 12880, <<80, 84, 69>>>>, <<12881, 12881, <<50, 49>>>>, <<12882, 12882, <<50, 50>>>>,
   <<12883, 12883, <<50, 51>>>>, <<12884, 12884, <<50, 52>>>>, <<12885, 12885, <<50, 53>>>>,
   <<12886, 12886, <<50, 54>>>>, <<12887, 12887, <<50, 55>>>>, <<12888, 12888, <<50, 56>>>>,
   <<12889, 12889, <<50, 57>>>>, <<12890, 12890, <<51, 48>>>>, <<12891, 12891, <<51, 49>>>>,
   <<12892, 12892, <<51, 50>>>>, <<12893, 12893, <<51, 51>>>>, <<12894, 12894, <<51, 52>>>>,
   <<12895, 12895, <<51, 53>>>>, <<12977, 12977, <<51, 54>>>>, <<12978, 12978, <<51, 55>>>>,
   <<12979, 12979, <<51, 56>>>>, <<12980, 12980, <<51, 57>>>>, <<12981, 12981, <<52, 48>>>>,
   <<12982, 12982, <<52, 49>>>>, <<12983, 12983, <<52, 50>>>>, <<12984, 12984, <<52, 51>>>>,
   <<12985, 12985, <<52, 52>>>>, <<12986, 12986, <<52, 53>>>>, <<12987, 12987, <<52, 54>>>>,
   <<12988, 12988, <<52, 55>>>>, <<12989, 12989, <<52, 56>>>>, <<12990, 12990, <<52, 57>>>>,
   <<12991, 12991, <<53, 48>>>>, <<12992, 12992, <<49, 128>>>>, <<12993, 12993, <<50, 128>>>>,
   <<12994, 12994, <<51, 128>>>>, <<12995, 12995, <<52, 128>>>>, <<12996, 12996, <<53, 128>>>>,
   <<12997, 12997, <<54, 128>>>>, <<12998, 12998, <<55, 128>>>>, <<12999, 12999, <<56, 128>>>>,
   <<13000, 13000, <<57, 128>>>>, <<13001, 13001, <<49, 48, 128>>>>, <<13002, 13002, <<49, 49, 128>>>>,
   <<13003, 13003, <<49, 50, 128>>>>, <<13004, 13004, <<72, 103>>>>, <<13005, 13005, <<101, 114, 103>>>>,
   <<13006, 13006, <<101, 86>>>>, <<13007, 13007, <<76, 84, 68>>>>, <<13144, 13144, <<48, 128>>>>,
   <<13145, 13145, <<49, 128>>>>, <<13146, 13146, <<50, 128>>>>, <<13147, 13147, <<51, 128>>>>,
   <<13148, 13148, <<52, 128>>>>, <<13149, 13149, <<53, 128>>>>, <<13150, 13150, <<54, 128>>>>,
   <<13151, 13151, <<55, 128>>>>, <<13152, 13152, <<56, 128>>>>, <<13153, 13153, <<57, 128>>>>,
   <<13154, 13154, <<49, 48, 128>>>>, <<13155, 13155, <<49, 49, 128>>>>, <<13156, 13156, <<49, 50, 128>>>>,
   <<13157, 13157, <<49, 51, 128>>>>, <<13158, 13158, <<49, 52, 128>>>>, <<13159, 13159, <<49, 53, 128>>>>,
   <<13160, 13160, <<49, 54, 128>>>>, <<13161, 13161, <<49, 55, 128>>>>, <<13162, 13162, <<49, 56, 128>>>>,
   <<13163, 13163, <<49, 57, 128>>>>, <<13164, 13164, <<50, 48, 128>>>>, <<13165, 13165, <<50, 49, 128>>>>,
   <<13166, 13166, <<50, 50, 128>>>>, <<13167, 13167, <<50, 51, 128>>>>, <<13168, 13168, <<50, 52, 128>>>>,
   <<13169, 13169, <<104, 80, 97>>>>, <<13170, 13170, <<100, 97>>>>, <<13171, 13171, <<65, 85>>>>,
   <<13172, 13172, <<98, 97, 114>>>>, <<13173, 13173, <<111, 86>>>>, <<13174, 13174, <<112, 99>>>>,
   <<13175, 13175, <<100, 109>>>>, <<13176, 13176, <<100, 109, 50>>>>, <<13177, 13177, <<100, 109, 51>>>>,
   <<13178, 13178, <<73, 85>>>>, <<13184, 13184, <<112, 65>>>>, <<13185, 13185, <<110, 65>>>>,
   <<13186, 13186, <<128, 65>>>>, <<13187, 13187, <<109, 65>>>>, <<13188, 13188, <<107, 65>>>>,
   <<13189, 13189, <<75, 66>>>>, <<13190, 13190, <<77, 66>>>>, <<13191, 13191, <<71, 66>>>>,
   <<13192, 13192, <<99, 97, 108>>>>, <<13193, 13193, <<107, 99, 97, 108>>>>, <<13194, 13194, <<112, 70>>>>,
   <<13195, 13195, <<110, 70>>>>, <<13196, 13196, <<128, 70>>>>, <<13197, 13197, <<128, 103>>>>,
   <<13198, 13198, <<109, 103>>>>, <<13199, 13199, <<107, 103>>>>, <<13200, 13200, <<72, 122>>>>,
   <<13201, 13201, <<107, 72, 122>>>>, <<13202, 13202, <<77, 72, 122>>>>, <<13203, 13203, <<71, 72, 122>>>>,
   <<13204, 13204, <<84, 72, 122>>>>, <<13205, 13205, <<128, 108>>>>, <<13206, 13206, <<109, 108>>>>,
   <<13207, 13207, <<100, 108>>>>, <<13208, 13208, <<107, 108>>>>, <<13209, 13209, <<102, 109>>>>,
   <<13210, 13210, <<110, 109>>>>, <<13211, 13211, <<128, 109>>>>, <<13212, 13212, <<109, 109>>>>,
   <<13213, 13213, <<99, 109>>>>, <<13214, 13214, <<107, 109>>>>, <<13215, 13215, <<109, 109, 50>>>>,
   <<13216, 13216, <<99, 109, 50>>>>, <<13217, 13217, <<109, 50>>>>, <<13218, 13218, <<107, 109, 50>>>>,
   <<13219, 13219, <<109, 109, 51>>>>, <<13220, 13220, <<99, 109, 51>>>>, <<13221, 13221, <<109, 51>>>>,
   <<13222, 13222, <<107, 109, 51>>>>, <<13223, 13223, <<109, 128, 115>>>>, <<13224, 13224, <<109, 128, 115, 50>>>>,
   <<13225, 13225, <<80, 97>>>>, <<13226, 13226, <<107, 80, 97>>>>, <<13227, 13227, <<77, 80, 97>>>>,
   <<13228, 13228, <<71, 80, 97>>>>, <<13229, 13229, <<114, 97, 100>>>>, <<13230, 13230, <<114, 97, 100, 128, 115>>>>,
   <<13231, 13231, <<114, 97, 100, 128, 115, 50>>>>, <<13232, 13232, <<112, 115>>>>, <<13233, 13233, <<110, 115>>>>,
   <<13234, 13234, <<128, 115>>>>, <<13235, 13235, <<109, 115>>>>, <<13236, 13236, <<112, 86>>>>,
   <<13237, 13237, <<110, 86>>>>, <<13238, 13238, <<128, 86>>>>, <<13239, 13239, <<109, 86>>>>,
   <<13240, 13240, <<107, 86>>>>, <<13241, 13241, <<77, 86>>>>, <<13242, 13242, <<112, 87>>>>,
   <<13243, 13243, <<110, 87>>>>, <<13244, 13244, <<128, 87>>>>, <<13245, 13245, <<109, 87>>>>,
   <<13246, 13246, <<107, 87>>>>, <<13247, 13247, <<77, 87>>>>, <<13248, 13248, <<107, 128>>>>,
   <<13249, 13249, <<77, 128>>>>, <<13250, 13250, <<97, 46, 109, 46>>>>, <<13251, 13251, <<66, 113>>>>,
   <<13252, 13252, <<99, 99>>>>, <<13253, 13253, <<99, 100>>>>, <<13254, 13254, <<67, 128, 107, 103>>>>,
   <<13255, 13255, <<67, 111, 46>>>>, <<13256, 13256, <<100, 66>>>>, <<13257, 13257, <<71, 121>>>>,
   <<13258, 13258, <<104, 97>>>>, <<13259, 13259, <<72, 80>>>>, <<13260, 13260, <<105, 110>>>>,
   <<13261, 13261, <<75, 75>>>>, <<13262, 13262, <<75, 77>>>>, <<13263, 13263, <<107, 116>>>>,
   <<13264, 13264, <<108, 109>>>>, <<13265, 13265, <<108, 110>>>>, <<13266, 13266, <<108, 111, 103>>>>,
   <<13267, 13267, <<108, 120>>>>, <<13268, 13268, <<109, 98>>>>, <<13269, 13269, <<109, 105, 108>>>>,
   <<13270, 13270, <<109, 111, 108>>>>, <<13271, 13271, <<80, 72>>>>, <<13272, 13272, <<112, 46, 109, 46>>>>,
   <<13273, 13273, <<80, 80, 77>>>>, <<13274, 13274, <<80, 82>>>>, <<13275, 13275, <<115, 114>>>>,
   <<13276, 13276, <<83, 118>>>>, <<13277, 13277, <<87, 98>>>>, <<13278, 13278, <<86, 128, 109>>>>,
   <<13279, 13279, <<65, 128, 109>>>>, <<13280, 13280, <<49, 128>>>>, <<13281, 13281, <<50, 128>>>>,
   <<13282, 13282, <<51, 128>>>>, <<13283, 13283, <<52, 128>>>>, <<13284, 13284, <<53, 128>>>>,
   <<13285, 13285, <<54, 128>>>>, <<13286, 13286, <<55, 128>>>>, <<13287, 13287, <<56, 128>>>>,
   <<13288, 13288, <<57, 128>>>>, <<13289, 13289, <<49, 48, 128>>>>, <<13290, 13290, <<49, 49, 128>>>>,
   <<13291, 13291, <<49, 50, 128>>>>, <<13292, 13292, <<49, 51, 128>>>>, <<13293, 13293, <<49, 52, 128>>>>,
   <<13294, 13294, <<49, 53, 128>>>>, <<13295, 13295, <<49, 54, 128>>>>, <<13296, 13296, <<49, 55, 128>>>>,
   <<13297, 13297, <<49, 56, 128>>>>, <<13298, 13298, <<49, 57, 128>>>>, <<13299, 13299, <<50, 48, 128>>>>,
   <<13300, 13300, <<50, 49, 128>>>>, <<13301, 13301, <<50, 50, 128>>>>, <<13302, 13302, <<50, 51, 128>>>>,
   <<13303, 13303, <<50, 52, 128>>>>, <<13304, 13304, <<50, 53, 128>>>>, <<13305, 13305, <<50, 54, 128>>>>,
   <<13306, 13306, <<50, 55, 128>>>>, <<13307, 13307, <<50, 56, 128>>>>, <<13308, 13308, <<50, 57, 128>>>>,
   <<13309, 13309, <<51, 48, 128>>>>, <<13310, 13310, <<51, 49, 128>>>>, <<13311, 13311, <<103, 97, 108>>>>,
   <<42994, 42994, <<67>>>>, <<42995, 42995, <<70>>>>, <<42996, 42996, <<81>>>>,
   <<64256, 64256, <<102, 102>>>>, <<64257, 64257, <<102, 105>>>>, <<64258, 64258, <<102, 108>>>>,
   <<64259, 64259, <<102, 102, 105>>>>, <<64260, 64260, <<102, 102, 108>>>>, <<64261, 64262, <<115, 116>>>>,
   <<64297, 64297, <<43>>>>, <<64606, 64611, <<32, 128>>>>, <<65018, 65018, <<128, 32, 128, 32, 128, 32, 128>>>>,
   <<65019, 65019, <<128, 32, 128>>>>, <<65040, 65040, <<44>>>>, <<65043, 65043, <<58>>>>,
   <<65044, 65044, <<59>>>>, <<65045, 65045, <<33>>>>, <<65046, 65046, <<63>>>>,
   <<65049, 65049, <<46, 46, 46>>>>, <<65072, 65072, <<46, 46>>>>, <<65075, 65076, <<95>>>>,
   <<65077, 65077, <<40>>>>, <<65078, 65078, <<41>>>>, <<65079, 65079, <<123>>>>,
   <<65080, 65080, <<125>>>>, <<65095, 65095, <<91>>>>, <<65096, 65096, <<93>>>>,
   <<65097, 65100, <<32, 128>>>>, <<65101, 65103, <<95>>>>, <<65104, 65104, <<44>>>>,
   <<65106, 65106, <<46>>>>, <<65108, 65108, <<59>>>>, <<65109, 65109, <<58>>>>,
   <<65110, 65110, <<63>>>>, <<65111, 65111, <<33>>>>, <<65113, 65113, <<40>>>>,
   <<65114, 65114, <<41>>>>, <<65115, 65115, <<123>>>>, <<65116, 65116, <<125>>>>,
   <<65119, 65119, <<35>>>>, <<65120, 65120, <<38>>>>, <<65121, 65121, <<42>>>>,
   <<65122, 65122, <<43>>>>, <<65123, 65123, <<45>>>>, <<65124, 65124, <<60>>>>,
   <<65125, 65125, <<62>>>>, <<65126, 65126, <<61>>>>, <<65128, 65128, <<92>>>>,
   <<65129, 65129, <<36>>>>, <<65130, 65130, <<37>>>>, <<65131, 65131, <<64>>>>,
   <<65136, 65136, <<32, 128>>>>, <<65138, 65138, <<32, 128>>>>, <<65140, 65140, <<32, 128>>>>,
   <<65142, 65142, <<32, 128>>>>, <<65144, 65144, <<32, 128>>>>, <<65146, 65146, <<32, 128>>>>,
   <<65148, 65148, <<32, 128>>>>, <<65150, 65150, <<32, 128>>>>, <<65507, 65507, <<32, 128>>>>,
   <<67493, 67493, <<113>>>>, <<119964, 119964, <<65>>>>, <<119966, 119966, <<67>>>>,
   <<119967, 119967, <<68>>>>, <<119970, 119970, <<71>>>>, <<119973, 119973, <<74>>>>,
   <<119974, 119974, <<75>>>>, <<119995, 119995, <<102>>>>, <<120068, 120068, <<65>>>>,
   <<120069, 120069, <<66>>>>, <<120120, 120120, <<65>>>>, <<120121, 120121, <<66>>>>,
   <<120134, 120134, <<79>>>>, <<127232, 127232, <<48, 46>>>>, <<127233, 127233, <<48, 44>>>>,
   <<127234, 127234, <<49, 44>>>>, <<127235, 127235, <<50, 44>>>>, <<127236, 127236, <<51, 44>>>>,
   <<127237, 127237, <<52, 44>>>>, <<127238, 127238, <<53, 44>>>>, <<127239, 127239, <<54, 44>>>>,
   <<127240, 127240, <<55, 44>>>>, <<127241, 127241, <<56, 44>>>>, <<127242, 127242, <<57, 44>>>>,
   <<127248, 127248, <<40, 65, 41>>>>, <<127249, 127249, <<40, 66, 41>>>>, <<127250, 127250, <<40, 67, 41>>>>,
   <<127251, 127251, <<40, 68, 41>>>>, <<127252, 127252, <<40, 69, 41>>>>, <<127253, 127253, <<40, 70, 41>>>>,
   <<127254, 127254, <<40, 71, 41>>>>, <<127255, 127255, <<40, 72, 41>>>>, <<127256, 127256, <<40, 73, 41>>>>,
   <<127257, 127257, <<40, 74, 41>>>>, <<127258, 127258, <<40, 75, 41>>>>, <<127259, 127259, <<40, 76, 41>>>>,
   <<127260, 127260, <<40, 77, 41>>>>, <<127261, 127261, <<40, 78, 41>>>>, <<127262, 127262, <<40, 79, 41>>>>,
   <<127263, 127263, <<40, 80, 41>>>>, <<127264, 127264, <<40, 81, 41>>>>, <<127265, 127265, <<40, 82, 41>>>>,
   <<127266, 127266, <<40, 83, 41>>>>, <<127267, 127267, <<40, 84, 41>>>>, <<127268, 127268, <<40, 85, 41>>>>,
   <<127269, 127269, <<40, 86, 41>>>>, <<127270, 127270, <<40, 87, 41>>>>, <<127271, 127271, <<40, 88, 41>>>>,
   <<127272, 127272, <<40, 89, 41>>>>, <<127273, 127273, <<40, 90, 41>>>>, <<127274, 127274, <<128, 83, 128>>>>,
   <<127275, 127275, <<67>>>>, <<127276, 127276, <<82>>>>, <<127277, 127277, <<67, 68>>>>,
   <<127278, 127278, <<87, 90>>>>, <<127306, 127306, <<72, 86>>>>, <<127307, 127307, <<77, 86>>>>,
   <<127308, 127308, <<83, 68>>>>, <<127309, 127309, <<83, 83>>>>, <<127310, 127310, <<80, 80, 86>>>>,
   <<127311, 127311, <<87, 67>>>>, <<127338, 127338, <<77, 67>>>>, <<127339, 127339, <<77, 68>>>>,
   <<127340, 127340, <<77, 82>>>>, <<127376, 127376, <<68, 74>>>>}

\* the value of the digit c for int(): of a decimal digit, or of one of
\* a-f and A-F; -1 for any other character
DigitValue(c) ==
  IF c \in 65..70 THEN c - 55
  ELSE IF c \in 97..102 THEN c - 87
  ELSE LET zeros == {z \in DecimalZeros : z <= c /\ c <= z + 9}
       IN  IF zeros = {} THEN -1 ELSE c - (CHOOSE z \in zeros : TRUE)

\* chr() takes the code points up to 0x10FFFF and raises for a larger number
MaxCodePoint == 1114111

\* int(digits, base), or MaxCodePoint + 1 when the number is larger than that
RECURSIVE IntOf(_, _, _)
IntOf(digits, base, acc) ==
  IF digits = <<>> THEN acc
  ELSE LET n == acc * base + DigitValue(Head(digits))
       IN  IntOf(Tail(digits), base,
                 IF n > MaxCodePoint THEN MaxCodePoint + 1 ELSE n)

\* the three patterns of references: how a reference begins, and the base of
\* its number (0 for a name)
\*   CHAR_ENTITY_PATTERN  '&(quot|amp|...);'
\*   DECIMAL_PATTERN      '&#(\d+);'
\*   HEX_PATTERN          '&#x([\da-fA-F]+);'
RefPatterns ==
  <<[begin |-> <<38>>, base |-> 0],
    [begin |-> <<38, 35>>, base |-> 10],
    [begin |-> <<38, 35, 120>>, base |-> 16]>>

\* the match of pattern at index i of s: the index of its last character and
\* the number it names, or last = 0 when the pattern does not match there.
\* What stands between the beginning and the first ";" after it is a name of
\* name2codepoint, or some digits of the base
RefAt(s, i, pattern) ==
  LET semicolons == {k \in (i + 1)..Len(s) : s[k] = 59}
      k == CHOOSE k \in semicolons : \A l \in semicolons : k <= l
      from == i + Len(pattern.begin)
      body == SubSeq(s, from, k - 1)
      named == {p \in name2codepoint : p[1] = body}
  IN  IF \/ s[i] # 38
         \/ semicolons = {}
         \/ k <= from
         \/ SubSeq(s, i, from - 1) # pattern.begin
        THEN [last |-> 0, number |-> 0]
      ELSE IF pattern.base = 0
        THEN IF named = {} THEN [last |-> 0, number |-> 0]
             ELSE [last |-> k, number |-> (CHOOSE p \in named : TRUE)[2]]
      ELSE IF \A d \in 1..Len(body) :
                /\ DigitValue(body[d]) >= 0
                /\ DigitValue(body[d]) < pattern.base
        THEN [last |-> k, number |-> IntOf(body, pattern.base, 0)]
      ELSE [last |-> 0, number |-> 0]

\* pattern.sub(lambda m: chr(...), text): every match gives way to the
\* character it names (a match begins with "&" and has no other "&" in it, so
\* no two matches overlap); when chr() raises for one of them, the
\* `except Exception: pass` of slugify leaves the text as it was
Decode(s, pattern) ==
  LET match == [i \in 1..Len(s) |-> RefAt(s, i, pattern)]
      starts == {i \in 1..Len(s) : match[i].last > 0}
      piece == [i \in 1..Len(s) |->
                  IF i \in starts THEN <<match[i].number>>
                  ELSE IF \E j \in starts : j < i /\ i <= match[j].last
                    THEN <<>>
                  ELSE <<s[i]>>]
  IN  IF starts = {} \/ \E i \in starts : match[i].number > MaxCodePoint
        THEN s
        ELSE Concat(piece)

\* the references of the three patterns decoded one pattern after the other
RECURSIVE DecodeAll(_, _)
DecodeAll(texts, patterns) ==
  IF patterns = <<>> THEN texts
  ELSE DecodeAll({Decode(t, Head(patterns)) : t \in texts}, Tail(patterns))

\* unicodedata.normalize('NFKD', c)
NfkdChar(c) ==
  LET runs == {r \in NfkdRuns : r[1] <= c /\ c <= r[2]}
      images == {r \in NfkdImages : r[1] <= c /\ c <= r[2]}
  IN  IF c < 128 THEN <<c>>
      ELSE IF runs # {} THEN <<c + (CHOOSE r \in runs : TRUE)[3]>>
      ELSE IF images # {} THEN (CHOOSE r \in images : TRUE)[3]
      ELSE <<c>>

\* unicodedata.normalize('NFKD', text)
Nfkd(s) ==
  IF \A i \in 1..Len(s) : s[i] < 128 THEN s
  ELSE Concat([i \in 1..Len(s) |-> NfkdChar(s[i])])

\* text.lower() of a decomposed text: the lower-case image of a character
\* outside ASCII is outside ASCII, and the character stands for it
SlugLower(s) ==
  [i \in 1..Len(s) |-> IF s[i] \in 65..90 THEN s[i] + 32 ELSE s[i]]

\* pattern.sub(repl, text) for a pattern '[...]+': every run of characters
\* of the class becomes repl
RECURSIVE SubRuns(_, _, _)
SubRuns(s, class, repl) ==
  IF \A i \in 1..Len(s) : s[i] \notin class THEN s
  ELSE IF Head(s) \notin class THEN <<Head(s)>> \o SubRuns(Tail(s), class, repl)
  ELSE IF Len(s) > 1 /\ s[2] \in class THEN SubRuns(Tail(s), class, repl)
  ELSE repl \o SubRuns(Tail(s), class, repl)

\* NUMBERS_PATTERN.sub('', text), '(?<=\d),(?=\d)': a comma between two digits
\* goes
CleanNumbers(s) ==
  LET digit == [i \in 1..Len(s) |->
                  DigitValue(s[i]) >= 0 /\ s[i] \notin (65..70) \cup (97..102)]
  IN  Concat([i \in 1..Len(s) |->
                IF s[i] = 44 /\ 1 < i /\ i < Len(s) /\ digit[i - 1] /\ digit[i + 1]
                  THEN <<>> ELSE <<s[i]>>])

\* the characters DISALLOWED_CHARS_PATTERN, '[^-a-zA-Z0-9]+', stands for,
\* among those of s
Disallowed(s) ==
  {s[i] : i \in 1..Len(s)} \ ({Dash} \cup (48..57) \cup (65..90) \cup (97..122))

\* str.strip('-')
StripDashes(s) ==
  LET kept == {i \in 1..Len(s) : s[i] # Dash}
  IN  IF kept = {} THEN <<>>
      ELSE SubSeq(s, CHOOSE i \in kept : \A j \in kept : i <= j,
                     CHOOSE i \in kept : \A j \in kept : j <= i)

\* the steps of slugify() in their order, each applied to the text the step
\* before it has made: QUOTE_PATTERN.sub('-'), the references, NFKD, lower(),
\* QUOTE_PATTERN.sub(''), NUMBERS_PATTERN.sub(''),
\* DISALLOWED_CHARS_PATTERN.sub('-'), DUPLICATE_DASH_PATTERN.sub('-'), strip
Slugify(s) ==
  LET subs == <<[class |-> {39}, repl |-> <<Dash>>],
                [class |-> {39}, repl |-> <<>>],
                [class |-> {}, repl |-> <<Dash>>],
                [class |-> {Dash}, repl |-> <<Dash>>]>>
      Sub(texts, n) ==
        {SubRuns(t, IF n = 3 THEN Disallowed(t) ELSE subs[n].class,
                 subs[n].repl) : t \in texts}
      decoded == DecodeAll(Sub({s}, 1), RefPatterns)
      lowered == {SlugLower(Nfkd(t)) : t \in decoded}
      numbers == {CleanNumbers(t) : t \in Sub(lowered, 2)}
  IN  CHOOSE t \in {StripDashes(u) : u \in Sub(Sub(numbers, 3), 4)} : TRUE

\* ------------------------------------------------- difflib.SequenceMatcher

\* __chain_b with autojunk, which is on by default: when b has 200 elements or
\* more, the elements that occur more than len(b) // 100 + 1 times are popular
\* and are left out of the index b2j
Popular(b) ==
  IF Len(b) >= 200
    THEN {c \in {b[j] : j \in 1..Len(b)} :
            Cardinality({j \in 1..Len(b) : b[j] = c}) > (Len(b) \div 100) + 1}
  ELSE {}

\* find_longest_match(alo, ahi, blo, bhi), no element being junk: the longest
\* block a[i..i+k-1] = b[j..j+k-1] of elements in the index inside the windows
\* (1-based, inclusive bounds alo..ahi and blo..bhi), the one starting earliest
\* in a, then earliest in b; then extended on each end by equal elements
BlockAt(a, b, i, j, k) == \A d \in 0..(k-1) : a[i+d] = b[j+d]

Blocks(a, alo, ahi, b, blo, bhi) ==
  LET popular == Popular(b)
      indexed == {j \in blo..bhi : b[j] \notin popular}
  IN  {m \in (alo..ahi) \X indexed \X (1..(ahi - alo + 1)) :
         /\ m[1] + m[3] - 1 <= ahi
         /\ m[2] + m[3] - 1 <= bhi
         /\ \A d \in 0..(m[3] - 1) : m[2] + d \in indexed
         /\ BlockAt(a, b, m[1], m[2], m[3])}

BlockBefore(m, n) ==
  \/ m[3] > n[3]
  \/ m[3] = n[3] /\ m[1] < n[1]
  \/ m[3] = n[3] /\ m[1] = n[1] /\ m[2] < n[2]

\* the two `while` loops that extend the best block by non-junk elements
Extended(a, alo, ahi, b, blo, bhi, m) ==
  LET lefts == {e \in 0..(m[1] - alo) :
                  /\ e <= m[2] - blo
                  /\ \A d \in 1..e : a[m[1] - d] = b[m[2] - d]}
      left == CHOOSE e \in lefts : \A f \in lefts : f <= e
      i == m[1] + m[3]
      j == m[2] + m[3]
      rights == {e \in 0..(ahi - i + 1) :
                   /\ e <= bhi - j + 1
                   /\ \A d \in 0..(e - 1) : a[i + d] = b[j + d]}
      right == CHOOSE e \in rights : \A f \in rights : f <= e
  IN  <<m[1] - left, m[2] - left, m[3] + left + right>>

FindLongestMatch(a, alo, ahi, b, blo, bhi) ==
  LET bs == Blocks(a, alo, ahi, b, blo, bhi)
      best == IF bs = {} THEN <<alo, blo, 0>>
              ELSE CHOOSE m \in bs : \A n \in bs : n = m \/ BlockBefore(m, n)
  IN  Extended(a, alo, ahi, b, blo, bhi, best)

\* get_matching_blocks(): the total size of the blocks found by matching the
\* longest block and then, recursively, the pieces to its left and right
RECURSIVE Matches(_, _, _, _, _, _)
Matches(a, alo, ahi, b, blo, bhi) ==
  IF alo > ahi \/ blo > bhi THEN 0
  ELSE LET m == FindLongestMatch(a, alo, ahi, b, blo, bhi)
       IN  IF m[3] = 0 THEN 0
           ELSE m[3] + Matches(a, alo, m[1] - 1, b, blo, m[2] - 1)
                     + Matches(a, m[1] + m[3], ahi, b, m[2] + m[3], bhi)

\* ratio() = 2.0 * matches / (len(a) + len(b)), 1.0 when both are empty; kept
\* as the fraction <<numerator, denominator>>
Ratio(a, b) ==
  IF Len(a) + Len(b) = 0 THEN <<1, 1>>
  ELSE <<2 * Matches(a, 1, Len(a), b, 1, Len(b)), Len(a) + Len(b)>>

RatioLess(r, s) == r[1] * s[2] < s[1] * r[2]
RatioEq(r, s) == r[1] * s[2] = s[1] * r[2]


\* ------------------------------------------------------------ the catalog

None == "None"

\* the links of a search over a few sources
Links == {"https://a.com/", "https://a.net/", "https://b.com/",
          "https://c.com/", "https://z.com/"}

\* the links of a search over more sources than the pool has workers
PoolLinks == <<"https://a.com/", "https://b.com/", "https://c.com/",
               "https://p1.com/", "https://p2.com/", "https://p3.com/",
               "https://p4.com/", "https://p5.com/", "https://p6.com/",
               "https://p7.com/", "https://p8.com/">>

\* urlparse(link).hostname of the links the searches are given
HostnameOf ==
  [l \in Links \cup {PoolLinks[i] : i \in 1..Len(PoolLinks)} |->
     CASE l = "https://a.com/" -> "a.com"
       [] l = "https://a.net/" -> "a.net"
       [] l = "https://b.com/" -> "b.com"
       [] l = "https://c.com/" -> "c.com"
       [] l = "https://z.com/" -> "z.com"
       [] l = "https://p1.com/" -> "p1.com"
       [] l = "https://p2.com/" -> "p2.com"
       [] l = "https://p3.com/" -> "p3.com"
       [] l = "https://p4.com/" -> "p4.com"
       [] l = "https://p5.com/" -> "p5.com"
       [] l = "https://p6.com/" -> "p6.com"
       [] l = "https://p7.com/" -> "p7.com"
       [] l = "https://p8.com/" -> "p8.com"]

\* crawler_list: hostname -> crawler class; a.com and a.net are mirrors served
\* by one class, z.com has no crawler
crawler_list ==
  [h \in {"a.com", "a.net", "b.com", "c.com", "p1.com", "p2.com", "p3.com",
          "p4.com", "p5.com", "p6.com", "p7.com", "p8.com"} |->
     CASE h = "a.com" -> "CrawlerA"
       [] h = "a.net" -> "CrawlerA"
       [] h = "b.com" -> "CrawlerB"
       [] h = "c.com" -> "CrawlerC"
       [] h = "p1.com" -> "CrawlerP1"
       [] h = "p2.com" -> "CrawlerP2"
       [] h = "p3.com" -> "CrawlerP3"
       [] h = "p4.com" -> "CrawlerP4"
       [] h = "p5.com" -> "CrawlerP5"
       [] h = "p6.com" -> "CrawlerP6"
       [] h = "p7.com" -> "CrawlerP7"
       [] h = "p8.com" -> "CrawlerP8"]

Crawlers == {crawler_list[h] : h \in DOMAIN crawler_list}

\* crawler_list.get(urlparse(link).hostname or '')
CrawlerType(link) ==
  LET hostname == HostnameOf[link]
  IN  IF hostname \in DOMAIN crawler_list THEN crawler_list[hostname] ELSE None

\* the worker pool size of ThreadPoolExecutor(max_workers=10)
max_workers == 10

\* ------------------------------------------------------------- variables

VARIABLES
  user_input,        \* app.user_input, the query
  crawler_links,     \* app.crawler_links
  site,              \* what each crawler class does when it is searched
  pc,                \* where search_novels is
  link_i,            \* the position of `for link in app.crawler_links`
  checked_crawlers,  \* the classes already given a task
  futures,           \* the submitted tasks, in submission order
  finished,          \* as_completed: done when the loop began, not yet yielded
  waiter,            \* as_completed: done since, in completion order
  all_results,       \* the accumulated results
  progress,          \* the count of drained tasks
  total_futures,     \* len(futures) at the start of the drain loop
  search_progress,   \* app.search_progress, as the fraction <<num, den>>
  search_results,    \* app.search_results
  raising,           \* the exception on its way out of the `with` of line 51, or None
  escaped,           \* the exception that left search_novels, or None
  started,           \* per class: how often _search_a_site prepared it
  searched,          \* per class: how often its search_novel was called
  searched_browser   \* per class: <<can_use_browser>> of the crawler searched, or <<>>

\* the state of src/telegram_bot.py
VARIABLES
  catalog,           \* the site: its list pages and the chapters of its novels
  outdirs,           \* /tmp/lncrawl_downloads: the output directory per novel
  crawling,          \* bot_data['crawling']
  status,            \* bot_data['status']
  crawls,            \* the crawl_and_send coroutines launched, in launch order
  db,                \* novels_collection: url -> its documents, oldest first
  reply,             \* the reply to the command handled last, or None
  handled,           \* the number of commands handled
  handler,           \* the handler that waits at an await, or None
  faults             \* the number of calls that failed so far

\* send_novel of src/telegram_bot.py and EpubBinder of
\* src/lncrawl/binders/epub.py
VARIABLES
  send,              \* a call of send_novel: its locals and its output directory
  binder             \* an EpubBinder in process_and_write_epub, with its pbar

pack_vars == <<send, binder>>

bot_vars == <<catalog, outdirs, crawling, status, crawls, db, reply, handled,
              handler, faults>>

search_vars == <<user_input, crawler_links, site, pc, link_i, checked_crawlers,
                 futures, finished, waiter, all_results, progress,
                 total_futures, search_progress, search_results, raising,
                 escaped, started, searched, searched_browser>>

vars == <<search_vars, bot_vars, pack_vars>>

inputs == <<user_input, crawler_links, site>>

\* ------------------------------------------------------- _search_a_site

\* line 19: the crawler instance prepare_crawler(link) returns when it does
\* not raise, here one of a class that can use a browser
PrepareCrawler(link) == [link |-> link, can_use_browser |-> TRUE]

\* line 20: setattr(crawler, 'can_use_browser', False)
KeepBrowser(crawler) == crawler

DisableBrowser(crawler) == [crawler EXCEPT !.can_use_browser = FALSE]

\* `except Exception` (lines 31 and 76): the classes it catches
ExceptionClasses == {"LNException", "ConnectionError", "TypeError"}

ExceptConnectionError(exc) == exc = "ConnectionError"

ExceptException(exc) == exc \in ExceptionClasses

\* line 27: `if item.url and item.title`
KeepItemUrlOnly(item) == item.url # <<>>

KeepItem(item) == item.url # <<>> /\ item.title # <<>>

\* the loop over crawler.search_novel(query): the generator raises when it is
\* asked for item number raise_at; a dict that SearchResult(**item) rejects
\* raises TypeError; an item with an empty url or title is left out
RECURSIVE IterateItems(_, _, _)
IterateItems(beh, k, results) ==
  IF beh.raise_at = k THEN [exc |-> "ConnectionError", value |-> results]
  ELSE IF k > Len(beh.items) THEN [exc |-> None, value |-> results]
  ELSE LET item == beh.items[k]
       IN  IF item.kind = "baddict" THEN [exc |-> "TypeError", value |-> results]
           ELSE IF KeepItem(item)
             THEN IterateItems(beh, k + 1,
                    Append(results, [title |-> Title(Lower(item.title)),
                                     url |-> item.url]))
           ELSE IterateItems(beh, k + 1, results)

\* the body of the try block: prepare_crawler(link), then the loop
SearchBody(link, query) ==
  LET beh == site[CrawlerType(link)]
  IN  IF beh.prepare # "ok" THEN [exc |-> beh.prepare, value |-> <<>>]
      ELSE IterateItems(beh, 1, <<>>)

SearchASitePartial(link, query) ==
  LET r == SearchBody(link, query)
  IN  [exc |-> None, value |-> r.value]

\* _search_a_site(link, query): what the future of the task ends with
SearchASite(link, query) ==
  LET r == SearchBody(link, query)
  IN  IF r.exc = None THEN r
      ELSE IF ExceptException(r.exc) THEN [exc |-> None, value |-> <<>>]
      ELSE [exc |-> r.exc, value |-> <<>>]

\* ------------------------------------------------ the result combination

\* line 89: `if len(key) <= 2`
KeyShorterThan2(key) == Len(key) < 2

KeyTooShort(key) == Len(key) <= 2

GroupByKeyNoMerge(items, combined) ==
  combined \o List([i \in 1..Len(items) |->
                     [key |-> Slugify(items[i].title), value |-> <<items[i]>>]])

\* lines 84-92: the groups, in the order their keys first arrive
RECURSIVE GroupByKey(_, _)
GroupByKey(items, combined) ==
  IF items = <<>> THEN combined
  ELSE LET item == Head(items)
           key == Slugify(item.title)
       IN  IF item.title = <<>> \/ KeyTooShort(key)
             THEN GroupByKey(Tail(items), combined)
           ELSE IF \E g \in 1..Len(combined) : combined[g].key = key
             THEN LET g == CHOOSE g \in 1..Len(combined) : combined[g].key = key
                  IN  GroupByKey(Tail(items),
                        [combined EXCEPT ![g].value = Append(@, item)])
           ELSE GroupByKey(Tail(items),
                  Append(combined, [key |-> key, value |-> <<item>>]))

UrlLess(x, y) == StrLess(x.url, y.url)

SortByUrlNone(value) == value

\* line 96, value.sort(key=lambda x: x.url): list.sort is stable, the member
\* at position i goes after every member that is smaller, or equal and earlier
SortByUrl(value) ==
  LET n == Len(value)
      rank == List([i \in 1..n |-> 1 + Cardinality({j \in 1..n :
                        \/ UrlLess(value[j], value[i])
                        \/ ~UrlLess(value[i], value[j]) /\ j < i})])
  IN  List([p \in 1..n |-> value[CHOOSE i \in 1..n : rank[i] = p]])

\* lines 94-103: one CombinedSearchResult per group
Processed(combined) ==
  List([g \in 1..Len(combined) |->
     LET value == SortByUrl(combined[g].value)
     IN  [id |-> combined[g].key, title |-> value[1].title, novels |-> value]])

Similarity(x, query) == Ratio(x.title, query)

\* the sort key of lines 105-108, (-len(x.novels), -ratio): the size and the
\* ratio it negates
SortKeyNoSize(x, query) == [size |-> 0, ratio |-> Similarity(x, query)]

SortKey(x, query) == [size |-> Len(x.novels), ratio |-> Similarity(x, query)]

\* the tuple comparison of two sort keys: k is smaller than l
KeyLess(k, l) ==
  \/ k.size > l.size
  \/ k.size = l.size /\ RatioLess(l.ratio, k.ratio)

\* the size of the final list, processed[:10]
top_results == 10

\* lines 104-109, processed.sort(key=...): the key of every element is
\* computed once, then the stable sort by the key
SortByKey(processed, query) ==
  LET n == Len(processed)
      key == List([i \in 1..n |-> SortKey(processed[i], query)])
      rank == List([i \in 1..n |-> 1 + Cardinality({j \in 1..n :
                        \/ KeyLess(key[j], key[i])
                        \/ ~KeyLess(key[i], key[j]) /\ j < i})])
  IN  List([p \in 1..n |-> processed[CHOOSE i \in 1..n : rank[i] = p]])

CombineNoLimit(results, query) ==
  SortByKey(Processed(GroupByKey(results, <<>>)), query)

\* lines 84-110: app.search_results for the accumulated results
Combine(results, query) ==
  LET sorted == SortByKey(Processed(GroupByKey(results, <<>>)), query)
  IN  SubSeq(sorted, 1, IF Len(sorted) < top_results THEN Len(sorted) ELSE top_results)

\* ------------------------------------------------------------ the inputs

MaxLinks == 3

RECURSIVE SeqsUpTo(_, _)
SeqsUpTo(S, n) ==
  IF n = 0 THEN {<<>>}
  ELSE LET shorter == SeqsUpTo(S, n - 1)
       IN  shorter \cup {Append(q, e) : q \in shorter, e \in S}

tAbc == <<97, 98, 99>>  \* "abc"
tAbcTitle == <<65, 98, 99>>  \* "Abc"
tXbc == <<120, 98, 99>>  \* "xbc"
tXabc == <<120, 97, 98, 99>>  \* "xabc"
tBbc == <<98, 98, 99>>  \* "bbc"
tHi == <<72, 105>>  \* "Hi"
uA == <<97, 46, 99, 111, 109, 47>>  \* "a.com/"
uA1 == <<97, 46, 99, 111, 109, 47, 49>>  \* "a.com/1"
uA2 == <<97, 46, 99, 111, 109, 47, 50>>  \* "a.com/2"
uB1 == <<98, 46, 99, 111, 109, 47, 49>>  \* "b.com/1"
uB2 == <<98, 46, 99, 111, 109, 47, 50>>  \* "b.com/2"
uC1 == <<99, 46, 99, 111, 109, 47, 49>>  \* "c.com/1"
uC2 == <<99, 46, 99, 111, 109, 47, 50>>  \* "c.com/2"

Hit(kind, title, url) == [kind |-> kind, title |-> title, url |-> url]
Behaviour(prepare, items, raise_at) ==
  [prepare |-> prepare, items |-> items, raise_at |-> raise_at,
   answers |-> TRUE]

\* a source that finds nothing
NoHits == Behaviour("ok", <<>>, 0)

\* a source that never answers: the request made by its search_novel
\* (line 24) does not return
Silent == [NoHits EXCEPT !.answers = FALSE]

\* the searches the model runs: a query and what each crawler class yields
Scenarios ==
  { \* a title two sources return, and the title equal to the query
    [query |-> tAbcTitle,
     site |-> [c \in Crawlers |->
       CASE c = "CrawlerA" -> Behaviour("ok", <<Hit("dict", tAbc, uA1)>>, 0)
         [] c = "CrawlerB" -> Behaviour("ok", <<Hit("SearchResult", tXbc, uB1)>>, 0)
         [] c = "CrawlerC" -> Behaviour("ok", <<Hit("dict", tXbc, uC1)>>, 0)
         [] OTHER -> NoHits]],
    \* a lower-case query, its exact title, and two titles as similar
    [query |-> tAbc,
     site |-> [c \in Crawlers |->
       CASE c = "CrawlerA" -> Behaviour("ok", <<Hit("dict", tAbc, uA1)>>, 0)
         [] c = "CrawlerB" -> Behaviour("ok", <<Hit("dict", tXabc, uB1)>>, 0)
         [] c = "CrawlerC" -> Behaviour("ok", <<Hit("dict", tBbc, uC1)>>, 0)
         [] OTHER -> NoHits]],
    \* a source that cannot be prepared, one whose second item is malformed
    [query |-> tAbcTitle,
     site |-> [c \in Crawlers |->
       CASE c = "CrawlerA" -> Behaviour("LNException", <<Hit("dict", tAbc, uA1)>>, 0)
         [] c = "CrawlerB" -> Behaviour("ok", <<Hit("dict", tAbc, uB1),
                                                Hit("baddict", tXbc, uB2)>>, 0)
         [] c = "CrawlerC" -> Behaviour("ok", <<Hit("dict", tAbc, uC2),
                                                Hit("dict", <<>>, uC1),
                                                Hit("SearchResult", tHi, uC1)>>, 0)
         [] OTHER -> NoHits]],
    \* a source whose generator raises after its first item
    [query |-> tAbcTitle,
     site |-> [c \in Crawlers |->
       CASE c = "CrawlerA" -> Behaviour("ok", <<Hit("dict", tXbc, uA2),
                                                Hit("dict", tAbc, uA1)>>, 0)
         [] c = "CrawlerB" -> Behaviour("ok", <<Hit("dict", tAbc, uB1),
                                                Hit("dict", tXbc, uB2)>>, 2)
         [] c = "CrawlerC" -> Behaviour("ok", <<Hit("dict", tXbc, <<>>),
                                                Hit("dict", tBbc, uC1)>>, 0)
         [] OTHER -> NoHits]],
    \* more titles than the final list holds, the title equal to the query
    \* the last of them, and a title with a two-character slug from two sources
    [query |-> tAbcTitle,
     site |-> [c \in Crawlers |->
       CASE c = "CrawlerA" ->
              Behaviour("ok",
                List([k \in 1..(top_results + 1) |->
                   IF k <= top_results
                     THEN Hit("dict", <<97, 98, 99 + k>>, Append(uA, 64 + k))
                     ELSE Hit("dict", tAbc, Append(uA, 64 + k))]), 0)
         [] c = "CrawlerB" -> Behaviour("ok", <<Hit("dict", tHi, uB1),
                                                Hit("dict", <<97, 98, 100>>, uB2)>>, 0)
         [] c = "CrawlerC" -> Behaviour("ok", <<Hit("SearchResult", Lower(tHi), uC1)>>, 0)
         [] OTHER -> NoHits]],
    \* the empty query
    [query |-> <<>>,
     site |-> [c \in Crawlers |->
       Behaviour("ok", <<Hit("dict", tAbc, uA1)>>, 0)]] }

\* ------------------------------------------------- the bot and its site

\* the novels of the site, by url
Novels == {"n1", "n2"}
TitleOf(url) == IF url = "n1" THEN "T1" ELSE "T2"

\* an `a` element of a list page; its h4.novel-title may be missing (line 209)
NovelLink(url) == [href |-> url, title |-> TitleOf(url)]
UntitledLink(url) == [href |-> url, title |-> None]

\* the site: pages[p + 1] holds the novel links of list page p in page order,
\* chapters[n] is len(novel_crawler.chapters) after read_novel_info
Catalog ==
  [pages |-> << <<NovelLink("n2")>>, <<UntitledLink("n2"), NovelLink("n1")>> >>,
   chapters |-> [n \in Novels |-> IF n = "n1" THEN 1 ELSE 2]]

\* time.time(): records stored before the bot started carry Earlier
Earlier == 0
Now == 1

\* a document of novels_collection
StoredRecord(url, count) ==
  [url |-> url, title |-> TitleOf(url), chapter_count |-> count,
   status |-> "processed", first_added |-> Earlier, last_checked |-> Earlier]

\* the database when the bot starts: n1 is stored with the chapters the site
\* has, n2 is stored with fewer chapters than the site has or is not stored
Databases ==
  { [n \in Novels |-> <<StoredRecord(n, 1)>>],
    [n \in Novels |-> IF n = "n1" THEN <<StoredRecord(n, 1)>> ELSE <<>>] }

\* the output directory of a novel, /tmp/lncrawl_downloads/<safe_title>
\* (lines 347-349), is not there ("absent"), is there without an EPUB
\* ("empty") or holds the EPUB of the novel ("epub"); no directory is there
\* when the bot starts
NoDirs == [n \in Novels |-> "absent"]

\* update.effective_user.id of a command: the owner's id, another id, or None
\* for an update without a user
BOT_OWNER == "owner"
Users == {BOT_OWNER, "stranger", None}

\* lines 449, 472 and 488: `if not user_id or user_id != BOT_OWNER: ... return`
AnyUser(user_id) == TRUE

IsOwner(user_id) == ~(user_id = None \/ user_id # BOT_OWNER)

\* what a handler answers with reply_text to the command cmd, and whether the
\* command came from the owner
Reply(user_id, cmd, text) ==
  [cmd |-> cmd, text |-> text, by_owner |-> user_id = BOT_OWNER]
NoReply == Reply(BOT_OWNER, None, None)

\* bot_data['status'] values
St(text) == <<text>>
StFor(text, title) == <<text, title>>

\* no send_novel has been called: no output directory, nothing sent
SendIdle ==
  [pc |-> "idle", title |-> <<>>, pack |-> None, packed |-> <<>>,
   dir_exists |-> FALSE, files |-> <<>>, file_path |-> <<>>,
   epub_found |-> FALSE, sent |-> <<>>, rmtree |-> None, result |-> None]

\* no binder has been asked to bind
BinderIdle ==
  [pc |-> "idle", chapters |-> <<>>, running |-> TRUE,
   i |-> 0, total |-> 0, n |-> 0, spine |-> <<>>, written |-> FALSE,
   result |-> None]

PackIdle == send = SendIdle /\ binder = BinderIdle

\* lines 579-580: the bot after startup, with nothing in the database
BotIdle ==
  /\ catalog = Catalog
  /\ outdirs = NoDirs
  /\ crawling = FALSE
  /\ status = St("Idle. Ready to start.")
  /\ crawls = <<>>
  /\ db = [n \in Novels |-> <<>>]
  /\ reply = NoReply
  /\ handled = 0
  /\ handler = None
  /\ faults = 0

\* ------------------------------------------------------------ the actions

\* App(): no search has run
Init ==
  /\ \E sc \in Scenarios : user_input = sc.query /\ site = sc.site
  /\ crawler_links \in SeqsUpTo(Links, MaxLinks)
  /\ pc = "start"
  /\ link_i = 1
  /\ checked_crawlers = {}
  /\ futures = <<>>
  /\ finished = {}
  /\ waiter = <<>>
  /\ all_results = <<>>
  /\ progress = 0
  /\ total_futures = 0
  /\ search_progress = <<0, 1>>
  /\ search_results = <<>>
  /\ raising = None
  /\ escaped = None
  /\ started = [c \in Crawlers |-> 0]
  /\ searched = [c \in Crawlers |-> 0]
  /\ searched_browser = [c \in Crawlers |-> <<>>]
  /\ BotIdle
  /\ PackIdle

\* line 47: `if not app.crawler_links or not app.user_input`
EarlyReturnLinksOnly(links, query) == links = <<>>

EarlyReturn(links, query) == links = <<>> \/ query = <<>>

\* line 58: `if not CrawlerType or CrawlerType in checked_crawlers`
SkipLinkNoDedup(ct, checked) == ct = None

SkipLink(ct, checked) == ct = None \/ ct \in checked

\* line 81: 100 * progress / total_futures, a true division
ProgressFloorDiv(done, total) == <<(100 * done) \div total, 1>>

ProgressValue(done, total) == <<100 * done, total>>

\* line 75: all_results.extend(future.result() or [])
ExtendReplaces(results, value) == value

Extend(results, value) == results \o value

\* lines 45-53: the call, up to the creation of the executor
Call ==
  /\ pc = "start"
  /\ pc' = IF EarlyReturn(crawler_links, user_input) THEN "done" ELSE "submit"
  /\ UNCHANGED <<inputs, link_i, checked_crawlers, futures, finished, waiter,
                 all_results, progress, total_futures, search_progress,
                 search_results, raising, escaped, started, searched,
                 searched_browser, bot_vars, pack_vars>>

\* lines 55-64: one round of the loop over the links
SubmitLink ==
  /\ pc = "submit"
  /\ link_i <= Len(crawler_links)
  /\ LET link == crawler_links[link_i]
         ct == CrawlerType(link)
     IN  IF SkipLink(ct, checked_crawlers)
           THEN UNCHANGED <<checked_crawlers, futures>>
           ELSE /\ checked_crawlers' = checked_crawlers \cup {ct}
                /\ futures' = Append(futures,
                     [link |-> link, hostname |-> HostnameOf[link],
                      state |-> "PENDING", called |-> FALSE,
                      exc |-> None, value |-> <<>>])
  /\ link_i' = link_i + 1
  /\ UNCHANGED <<inputs, pc, finished, waiter, all_results, progress,
                 total_futures, search_progress, search_results, raising,
                 escaped, started, searched, searched_browser, bot_vars,
                 pack_vars>>

\* lines 66-72: the loop is over; as_completed(futures) takes the futures
\* that are already done and waits for the others
BeginDrain ==
  /\ pc = "submit"
  /\ link_i > Len(crawler_links)
  /\ all_results' = <<>>
  /\ progress' = 0
  /\ total_futures' = Len(futures)
  /\ search_progress' = <<0, 1>>
  /\ finished' = {f \in 1..Len(futures) : futures[f].state = "FINISHED"}
  /\ waiter' = <<>>
  /\ pc' = "drain"
  /\ UNCHANGED <<inputs, link_i, checked_crawlers, futures, search_results,
                 raising, escaped, started, searched, searched_browser,
                 bot_vars, pack_vars>>

\* lines 72-81: as_completed yields a future (those done at the start in any
\* order, then the others as they complete) and the loop body handles it
YieldsInSubmissionOrder(f) ==
  f = progress + 1 /\ futures[f].state = "FINISHED"

Yields(f) ==
  IF finished # {} THEN f \in finished
  ELSE waiter # <<>> /\ f = Head(waiter)

\* one round of the loop. What future.result() raises and line 76 does not
\* catch leaves the loop and enters the exit of the `with` block of line 51
DrainOne ==
  /\ pc = "drain"
  /\ \E f \in 1..Len(futures) :
       /\ Yields(f)
       /\ finished' = finished \ {f}
       /\ waiter' = IF finished # {} THEN waiter ELSE Tail(waiter)
       /\ IF futures[f].exc = None
            THEN /\ all_results' = Extend(all_results, futures[f].value)
                 /\ progress' = progress + 1
                 /\ search_progress' = ProgressValue(progress + 1, total_futures)
                 /\ UNCHANGED <<pc, raising>>
          ELSE IF ExceptException(futures[f].exc)
            THEN /\ progress' = progress + 1
                 /\ search_progress' = ProgressValue(progress + 1, total_futures)
                 /\ UNCHANGED <<pc, raising, all_results>>
          ELSE /\ pc' = "exiting"
               /\ raising' = futures[f].exc
               /\ UNCHANGED <<all_results, progress, search_progress>>
  /\ UNCHANGED <<inputs, link_i, checked_crawlers, futures, total_futures,
                 search_results, escaped, started, searched,
                 searched_browser, bot_vars, pack_vars>>

\* line 51, the exit of the `with` block, and lines 84-110: the executor is
\* shut down with wait=True, which returns when every submitted task has
\* ended. After the loop, where every future was yielded, the results are
\* combined; with an exception on its way out, it then leaves search_novels
CombineResults ==
  /\ \/ pc = "drain" /\ progress = total_futures
     \/ pc = "exiting"
  /\ \A f \in 1..Len(futures) : futures[f].state = "FINISHED"
  /\ IF raising = None
       THEN /\ search_results' = Combine(all_results, user_input)
            /\ pc' = "done"
            /\ UNCHANGED escaped
       ELSE /\ pc' = "raised"
            /\ escaped' = raising
            /\ UNCHANGED search_results
  /\ UNCHANGED <<inputs, link_i, checked_crawlers, futures, finished, waiter,
                 all_results, progress, total_futures, search_progress,
                 raising, started, searched, searched_browser, bot_vars,
                 pack_vars>>

Running == {f \in 1..Len(futures) : futures[f].state = "RUNNING"}

\* ThreadPoolExecutor(max_workers=10): a queued task is taken when fewer
\* than max_workers tasks are running
WorkerFreeAlways(running) == TRUE

WorkerFree(running) == Cardinality(running) < max_workers

\* a worker thread of the pool takes the oldest queued task
StartTask ==
  /\ WorkerFree(Running)
  /\ \E f \in 1..Len(futures) :
       /\ futures[f].state = "PENDING"
       /\ \A g \in 1..(f - 1) : futures[g].state # "PENDING"
       /\ futures' = [futures EXCEPT ![f].state = "RUNNING"]
  /\ UNCHANGED <<inputs, pc, link_i, checked_crawlers, finished, waiter,
                 all_results, progress, total_futures, search_progress,
                 search_results, raising, escaped, started, searched,
                 searched_browser, bot_vars, pack_vars>>

\* lines 17-24 in a worker thread: the task prepares its crawler, disables
\* its browser and calls search_novel, whose request goes out; a crawler that
\* cannot be prepared ends the task there (lines 31-35)
CallSearch ==
  /\ \E f \in 1..Len(futures) :
       /\ futures[f].state = "RUNNING"
       /\ ~futures[f].called
       /\ LET ct == CrawlerType(futures[f].link)
              r == SearchASite(futures[f].link, user_input)
          IN  /\ started' = [started EXCEPT ![ct] = @ + 1]
              /\ IF site[ct].prepare = "ok"
                   THEN /\ futures' = [futures EXCEPT ![f].called = TRUE]
                        /\ searched' = [searched EXCEPT ![ct] = @ + 1]
                        /\ searched_browser' =
                             [searched_browser EXCEPT ![ct] =
                                <<DisableBrowser(PrepareCrawler(futures[f].link)).can_use_browser>>]
                        /\ UNCHANGED waiter
                   ELSE /\ futures' = [futures EXCEPT ![f].state = "FINISHED",
                                                      ![f].exc = r.exc,
                                                      ![f].value = r.value]
                        /\ waiter' = IF pc = "drain" THEN Append(waiter, f) ELSE waiter
                        /\ UNCHANGED <<searched, searched_browser>>
  /\ UNCHANGED <<inputs, pc, link_i, checked_crawlers, finished,
                 all_results, progress, total_futures, search_progress,
                 search_results, raising, escaped, bot_vars, pack_vars>>

\* lines 24-35 in a worker thread: the source answers, the task goes through
\* the hits and its future is completed
FinishTask ==
  /\ \E f \in 1..Len(futures) :
       /\ futures[f].state = "RUNNING"
       /\ futures[f].called
       /\ site[CrawlerType(futures[f].link)].answers
       /\ LET r == SearchASite(futures[f].link, user_input)
          IN  futures' = [futures EXCEPT ![f].state = "FINISHED",
                                         ![f].exc = r.exc,
                                         ![f].value = r.value]
       /\ waiter' = IF pc = "drain" THEN Append(waiter, f) ELSE waiter
  /\ UNCHANGED <<inputs, pc, link_i, checked_crawlers, finished,
                 all_results, progress, total_futures, search_progress,
                 search_results, raising, escaped, started, searched,
                 searched_browser, bot_vars, pack_vars>>

Next ==
  \/ Call
  \/ SubmitLink
  \/ BeginDrain
  \/ DrainOne
  \/ CombineResults
  \/ StartTask
  \/ CallSearch
  \/ FinishTask

Spec == Init /\ [][Next]_vars

\* ------------------------------------- a search over more sources than workers

\* at most this many of the sources answer while the search runs
MaxAnswers == 1

PoolCrawlers == {CrawlerType(PoolLinks[i]) : i \in 1..Len(PoolLinks)}

\* a search of all the pool links; the sources that answer find nothing,
\* except the first, which has one hit or cannot be prepared
InitPool ==
  /\ user_input = tAbcTitle
  /\ \E prepare \in {"ok", "LNException"} :
     \E answering \in {a \in SUBSET PoolCrawlers : Cardinality(a) <= MaxAnswers} :
       site = [c \in Crawlers |->
                 IF c \notin answering THEN Silent
                 ELSE IF c = "CrawlerA"
                   THEN Behaviour(prepare, <<Hit("dict", tAbc, uA1)>>, 0)
                   ELSE NoHits]
  /\ crawler_links = PoolLinks
  /\ pc = "start"
  /\ link_i = 1
  /\ checked_crawlers = {}
  /\ futures = <<>>
  /\ finished = {}
  /\ waiter = <<>>
  /\ all_results = <<>>
  /\ progress = 0
  /\ total_futures = 0
  /\ search_progress = <<0, 1>>
  /\ search_results = <<>>
  /\ raising = None
  /\ escaped = None
  /\ started = [c \in Crawlers |-> 0]
  /\ searched = [c \in Crawlers |-> 0]
  /\ searched_browser = [c \in Crawlers |-> <<>>]
  /\ BotIdle
  /\ PackIdle

\* as_completed waits for every task, so with a source that never answers
\* the loop of lines 72-81 does not end and lines 84-110 are not reached
NextPool ==
  \/ Call
  \/ SubmitLink
  \/ BeginDrain
  \/ DrainOne
  \/ StartTask
  \/ CallSearch
  \/ FinishTask

\* a step of a worker thread of the pool: it takes the oldest queued task,
\* calls the source of its task, or completes its task
WorkerStep == StartTask \/ CallSearch \/ FinishTask

\* the worker threads of the pool keep running: while a worker can take a
\* step, a worker takes one
SpecPool ==
  /\ InitPool
  /\ [][NextPool]_vars
  /\ WF_vars(WorkerStep)


\* ------------------------------------------------------- the telegram bot
\* The handlers and crawl_and_send are coroutines of one event loop: each
\* action is what a coroutine does from one await to the next.

MaxCommands == 3
MaxCrawls == 2
MaxFaults == 1

\* an awaited call to the site or to Telegram returns, or raises while the
\* bound on failures allows it; faults counts the awaits in which something
\* failed
Outcomes == {"ok"} \cup (IF faults < MaxFaults THEN {"raise"} ELSE {})
Cost(outcome) == IF outcome = "ok" THEN 0 ELSE 1

\* app.pack_epub returns and leaves an EPUB in the output directory ("ok"),
\* returns and leaves none ("none"), or raises
PackOutcomes ==
  {"ok"} \cup (IF faults < MaxFaults THEN {"none", "raise"} ELSE {})

\* a send_message that reports a failure (lines 231, 330, 395 and 423) returns
\* or raises; it follows a failure that was counted
ReportOutcomes == {"ok", "raise"}

\* the search is not in use while the bot is modelled
SearchIdle ==
  /\ user_input = <<>>
  /\ crawler_links = <<>>
  /\ site = [c \in Crawlers |-> NoHits]
  /\ pc = "done"
  /\ link_i = 1
  /\ checked_crawlers = {}
  /\ futures = <<>>
  /\ finished = {}
  /\ waiter = <<>>
  /\ all_results = <<>>
  /\ progress = 0
  /\ total_futures = 0
  /\ search_progress = <<0, 1>>
  /\ search_results = <<>>
  /\ raising = None
  /\ escaped = None
  /\ started = [c \in Crawlers |-> 0]
  /\ searched = [c \in Crawlers |-> 0]
  /\ searched_browser = [c \in Crawlers |-> <<>>]

InitBot ==
  /\ SearchIdle
  /\ PackIdle
  /\ catalog = Catalog
  /\ outdirs = NoDirs
  /\ crawling = FALSE
  /\ status = St("Idle. Ready to start.")
  /\ crawls = <<>>
  /\ db \in Databases
  /\ reply = NoReply
  /\ handled = 0
  /\ handler = None
  /\ faults = 0

\* a coroutine crawl_and_send that the thread of line 461 is about to schedule;
\* pc is the await it waits at. did, failed and stop_seen record what happened
\* to it: how its process_novel went ("checked": no new chapters, "sent" and
\* "not_sent": what send_novel returned, "send_error": send_novel raised,
\* "error": an exception before send_novel was called), that an exception
\* reached line 227, that /stop was accepted while it ran
NewCrawl ==
  [pc |-> "thread", page |-> 0, queue |-> <<>>, found |-> <<>>, did |-> None,
   msg |-> None, failed |-> FALSE, stop_seen |-> FALSE]

\* a coroutine that has returned or raised keeps nothing
Ended == [NewCrawl EXCEPT !.pc = "ended"]

Reverse(q) == List([i \in 1..Len(q) |-> q[Len(q) + 1 - i]])

\* lines 232-246: the finally block up to its await of send_message
GoFinally(c) ==
  LET d == [c EXCEPT !.pc = "notify", !.page = 0, !.queue = <<>>,
                     !.found = <<>>, !.did = None]
  IN  IF crawling
        THEN [c |-> [d EXCEPT !.msg = "Finished crawling all pages."],
              status |-> St("Idle. Crawl finished.")]
        ELSE [c |-> [d EXCEPT !.msg = "Crawl stopped as requested."],
              status |-> St("Idle. Crawl stopped.")]

\* lines 182-193: the head of the page loop for page p, up to await get_soup
EnterPage(c, p) ==
  IF p < 0 THEN GoFinally(c)
  ELSE IF ~crawling THEN GoFinally(c)
  ELSE [c |-> [c EXCEPT !.pc = "fetching", !.page = p, !.queue = <<>>,
                        !.found = <<>>, !.did = None],
        status |-> StFor("Crawling page", p + 1)]

\* lines 221-225: after the novels of a page
AfterNovels(c) ==
  IF ~crawling THEN GoFinally(c) ELSE EnterPage(c, c.page - 1)

\* lines 200-215: the novel loop from the link at the head of queue on, up to
\* the first await of process_novel, whose line 256 has read the database
RECURSIVE NovelLoop(_, _)
NovelLoop(c, queue) ==
  IF queue = <<>> THEN AfterNovels(c)
  ELSE IF ~crawling THEN AfterNovels(c)
  ELSE IF Head(queue).title = None THEN NovelLoop(c, Tail(queue))
  ELSE [c |-> [c EXCEPT !.pc = "processing", !.queue = queue, !.did = None,
                        !.found = IF db[Head(queue).href] = <<>> THEN <<>>
                                  ELSE <<db[Head(queue).href][1]>>],
        status |-> StFor("Processing", Head(queue).title)]

\* lines 227-231: the except block up to its await of send_message
Except(c) ==
  [c |-> [c EXCEPT !.pc = "report", !.failed = TRUE, !.page = 0,
                   !.queue = <<>>, !.found = <<>>, !.did = None],
   status |-> St("Crawl failed critically")]

\* the coroutine starts to run: lines 137-145
CrawlBegin(i) ==
  /\ crawls[i].pc = "thread"
  /\ status' = St("Initializing crawl...")
  /\ crawling' = TRUE
  /\ crawls' = [crawls EXCEPT ![i].pc = "init"]
  /\ UNCHANGED <<search_vars, pack_vars, catalog, outdirs, db, reply, handled, handler,
                 faults>>

\* lines 145-151: site_crawler.initialize returns and the first list page is
\* asked for, or it raises
CrawlerInitialized(i) ==
  /\ crawls[i].pc = "init"
  /\ \E outcome \in Outcomes :
       LET r == IF outcome = "ok"
                  THEN [c |-> [crawls[i] EXCEPT !.pc = "counting"],
                        status |-> St("Fetching total page count...")]
                  ELSE Except(crawls[i])
       IN  /\ crawls' = [crawls EXCEPT ![i] = r.c]
           /\ status' = r.status
           /\ faults' = faults + Cost(outcome)
  /\ UNCHANGED <<search_vars, pack_vars, catalog, outdirs, crawling, db, reply, handled,
                 handler>>

\* lines 151-193: the first list page is fetched and the page loop begins
\* with the last page, or get_soup raises
PageCountFetched(i) ==
  /\ crawls[i].pc = "counting"
  /\ \E outcome \in Outcomes :
       LET r == IF outcome = "ok"
                  THEN EnterPage(crawls[i], Len(catalog.pages) - 1)
                  ELSE Except(crawls[i])
       IN  /\ crawls' = [crawls EXCEPT ![i] = r.c]
           /\ status' = r.status
           /\ faults' = faults + Cost(outcome)
  /\ UNCHANGED <<search_vars, pack_vars, catalog, outdirs, crawling, db, reply, handled,
                 handler>>

\* lines 193-215: get_soup of the page returns, or raises
PageFetched(i) ==
  /\ crawls[i].pc = "fetching"
  /\ \E outcome \in Outcomes :
       LET r == IF outcome = "ok"
                  THEN NovelLoop(crawls[i],
                                 Reverse(catalog.pages[crawls[i].page + 1]))
                  ELSE Except(crawls[i])
       IN  /\ crawls' = [crawls EXCEPT ![i] = r.c]
           /\ status' = r.status
           /\ faults' = faults + Cost(outcome)
  /\ UNCHANGED <<search_vars, pack_vars, catalog, outdirs, crawling, db, reply, handled,
                 handler>>

\* line 274: `if latest_chapter_count > stored_chapter_count`
HasNewChapters(latest, stored) == latest > stored

\* lines 280 and 309: `if await send_novel(...)`
RecordAlways(sent) == TRUE

RecordIfSent(sent) == sent

\* process_novel and the send_novel it calls, await by await. The crawl waits
\* at line 262 ("processing"), 266 ("reading"), 362 ("packing" while
\* app.pack_epub runs in its thread, "packed" and "pack_raised" once it has
\* returned or raised), 378 ("sending"), 395 ("send_report"), 423
\* ("pack_report") or 330 ("error_report").
InProcessNovel ==
  {"processing", "reading", "packing", "packed", "pack_raised", "sending",
   "send_report", "pack_report", "error_report"}

\* line 351: os.makedirs(output_path, exist_ok=True)
MakeDirs(d) == IF d = "absent" THEN "empty" ELSE d

\* lines 425-439, the finally block of send_novel: os.remove, when file_path
\* is set, and shutil.rmtree succeed ("ok"); or rmtree deletes what the
\* directory holds and raises at the directory itself, after an os.remove
\* that succeeded ("rmtree"); or nothing in the directory can be deleted and
\* both raise ("both"). What is raised is caught and logged. Nothing is
\* called, and nothing can fail, when the directory is not there
DirOutcomes(d) ==
  {"ok"} \cup (IF d # "absent" /\ faults < MaxFaults
                 THEN {"rmtree", "both"} ELSE {})

\* the directory after the finally block; file_path is set when has_file.
\* A file in it that is not this call's own goes with the rest in rmtree
CleanDir(d, has_file, clean) ==
  IF d = "absent" \/ clean = "ok" THEN "absent"
  ELSE IF clean = "rmtree" THEN "empty"
  ELSE d

\* lines 326-330: the except block of process_novel up to its send_message
NovelError(c, did) ==
  [c |-> [c EXCEPT !.pc = "error_report", !.did = did],
   status |-> StFor("Error processing", Head(c.queue).title)]

\* process_novel returns to line 217
NovelDone(c, did) == [c EXCEPT !.pc = "sleep", !.found = <<>>, !.did = did]

\* lines 280-290 and 309-323: send_novel has returned `sent`
AfterSend(c, sent) ==
  LET link == Head(c.queue)
      url == link.href
      latest == catalog.chapters[url]
      known == c.found # <<>>
  IN  IF RecordIfSent(sent)
        THEN [c |-> NovelDone(c, IF sent THEN "sent" ELSE "not_sent"),
              status |-> status,
              db |-> IF known
                       THEN IF db[url] = <<>> THEN db
                            ELSE [db EXCEPT ![url][1] =
                                    [@ EXCEPT !.chapter_count = latest,
                                              !.status = "updated",
                                              !.last_checked = Now]]
                     ELSE [db EXCEPT ![url] = Append(@,
                             [url |-> url, title |-> link.title,
                              chapter_count |-> latest, status |-> "processed",
                              first_added |-> Now, last_checked |-> Now])]]
      ELSE [c |-> NovelDone(c, IF sent THEN "sent" ELSE "not_sent"),
            status |-> IF known
                         THEN StFor("Failed sending update", link.title)
                         ELSE StFor("Failed sending new", link.title),
            db |-> db]

\* lines 262-266: novel_crawler.initialize returns or raises
NovelInitialized(i) ==
  /\ crawls[i].pc = "processing"
  /\ \E outcome \in Outcomes :
       LET r == IF outcome = "ok"
                  THEN [c |-> [crawls[i] EXCEPT !.pc = "reading"],
                        status |-> status]
                  ELSE NovelError(crawls[i], "error")
       IN  /\ crawls' = [crawls EXCEPT ![i] = r.c]
           /\ status' = r.status
           /\ faults' = faults + Cost(outcome)
  /\ UNCHANGED <<search_vars, pack_vars, catalog, outdirs, crawling, db, reply, handled,
                 handler>>

\* lines 266-309 and 333-362: read_novel_info returns; a novel that is stored
\* with no fewer chapters is marked as checked, any other is given to
\* send_novel, which runs up to app.pack_epub; or read_novel_info raises
NovelInfoRead(i) ==
  /\ crawls[i].pc = "reading"
  /\ \E outcome \in Outcomes :
       LET c == crawls[i]
           link == Head(c.queue)
           url == link.href
           latest == catalog.chapters[url]
           known == c.found # <<>>
           wanted == IF known
                       THEN HasNewChapters(latest, c.found[1].chapter_count)
                       ELSE TRUE
       IN  /\ faults' = faults + Cost(outcome)
           /\ IF outcome = "raise"
                THEN /\ crawls' = [crawls EXCEPT ![i] = NovelError(c, "error").c]
                     /\ status' = NovelError(c, "error").status
                     /\ db' = db
              ELSE IF wanted
                THEN /\ crawls' = [crawls EXCEPT ![i].pc = "packing"]
                     /\ status' = StFor("Packing", link.title)
                     /\ db' = db
              ELSE /\ crawls' = [crawls EXCEPT ![i] = NovelDone(c, "checked")]
                   /\ status' = StFor("Checked (up-to-date)", link.title)
                   /\ db' = IF db[url] = <<>> THEN db
                            ELSE [db EXCEPT ![url][1] =
                                    [@ EXCEPT !.last_checked = Now,
                                              !.status = "checked"]]
           /\ outdirs' = IF outcome = "ok" /\ wanted
                            THEN [outdirs EXCEPT ![url] = MakeDirs(@)]
                            ELSE outdirs
  /\ UNCHANGED <<search_vars, pack_vars, catalog, crawling, reply, handled,
                 handler>>

\* line 362, in the thread of the executor: app.pack_epub returns and has
\* written the EPUB into the output directory, which it makes when it is
\* not there (epub.py line 235), or returns and has written none, or raises
PackFinished(i) ==
  /\ crawls[i].pc = "packing"
  /\ \E outcome \in PackOutcomes :
       LET url == Head(crawls[i].queue).href
       IN  /\ crawls' = [crawls EXCEPT ![i].pc = IF outcome = "raise"
                                                   THEN "pack_raised"
                                                   ELSE "packed"]
           /\ outdirs' = IF outcome = "ok"
                            THEN [outdirs EXCEPT ![url] = "epub"]
                            ELSE outdirs
           /\ faults' = faults + Cost(outcome)
  /\ UNCHANGED <<search_vars, pack_vars, catalog, crawling, status, db, reply,
                 handled, handler>>

\* lines 362-378 and 405-439: the coroutine goes on after app.pack_epub. The
\* first EPUB of the directory is given to send_document; or the directory
\* holds none, or is not there any more, and send_novel returns False after
\* its finally block; or pack_epub raised and the except block of line 418
\* reports it
\* (the EPUB is named after the novel: status 'Sending: <title>.epub')
NovelPacked(i) ==
  /\ crawls[i].pc \in {"packed", "pack_raised"}
  /\ LET c == crawls[i]
         title == Head(c.queue).title
         url == Head(c.queue).href
     IN  IF c.pc = "pack_raised"
           THEN /\ crawls' = [crawls EXCEPT ![i].pc = "pack_report"]
                /\ status' = StFor("Error packing/sending", title)
                /\ UNCHANGED <<db, outdirs, faults>>
         ELSE IF outdirs[url] = "epub"
           THEN /\ crawls' = [crawls EXCEPT ![i].pc = "sending"]
                /\ status' = StFor("Sending", title)
                /\ UNCHANGED <<db, outdirs, faults>>
         ELSE \E clean \in DirOutcomes(outdirs[url]) :
                LET r == AfterSend(c, FALSE)
                IN  /\ crawls' = [crawls EXCEPT ![i] = r.c]
                    /\ status' = r.status
                    /\ db' = r.db
                    /\ outdirs' = [outdirs EXCEPT ![url] = CleanDir(@, FALSE, clean)]
                    /\ faults' = faults + Cost(clean)
  /\ UNCHANGED <<search_vars, pack_vars, catalog, crawling, reply, handled,
                 handler>>

\* lines 378-395 and 405-439: send_document returns and send_novel returns
\* True after its finally block, or it raises and the failure is reported
NovelSent(i) ==
  /\ crawls[i].pc = "sending"
  /\ LET c == crawls[i]
         url == Head(c.queue).href
     IN  \/ \E clean \in DirOutcomes(outdirs[url]) :
              LET r == AfterSend(c, TRUE)
              IN  /\ crawls' = [crawls EXCEPT ![i] = r.c]
                  /\ status' = r.status
                  /\ db' = r.db
                  /\ outdirs' = [outdirs EXCEPT ![url] = CleanDir(@, TRUE, clean)]
                  /\ faults' = faults + Cost(clean)
         \/ /\ "raise" \in Outcomes
            /\ crawls' = [crawls EXCEPT ![i].pc = "send_report"]
            /\ status' = StFor("Failed sending", Head(c.queue).title)
            /\ faults' = faults + Cost("raise")
            /\ UNCHANGED <<db, outdirs>>
  /\ UNCHANGED <<search_vars, pack_vars, catalog, crawling, reply, handled,
                 handler>>

\* lines 395-439: the send_message that reports the send failure returns, or
\* raises and is caught on line 396; send_novel returns False after its
\* finally block
SendFailureReported(i) ==
  /\ crawls[i].pc = "send_report"
  /\ \E outcome \in ReportOutcomes :
     \E clean \in DirOutcomes(outdirs[Head(crawls[i].queue).href]) :
       LET r == AfterSend(crawls[i], FALSE)
           url == Head(crawls[i].queue).href
       IN  /\ crawls' = [crawls EXCEPT ![i] = r.c]
           /\ status' = r.status
           /\ db' = r.db
           /\ outdirs' = [outdirs EXCEPT ![url] = CleanDir(@, TRUE, clean)]
           /\ faults' = faults + Cost(clean)
  /\ UNCHANGED <<search_vars, pack_vars, catalog, crawling, reply, handled,
                 handler>>

\* lines 423-439 and 326-330: the send_message of the except block of
\* send_novel returns and send_novel returns False, or it raises out of
\* send_novel into the except block of process_novel; the finally block of
\* send_novel runs on both ways
PackFailureReported(i) ==
  /\ crawls[i].pc = "pack_report"
  /\ \E outcome \in ReportOutcomes :
     \E clean \in DirOutcomes(outdirs[Head(crawls[i].queue).href]) :
       LET url == Head(crawls[i].queue).href
           r == IF outcome = "ok" THEN AfterSend(crawls[i], FALSE)
                ELSE [c |-> NovelError(crawls[i], "send_error").c,
                      status |-> NovelError(crawls[i], "send_error").status,
                      db |-> db]
       IN  /\ crawls' = [crawls EXCEPT ![i] = r.c]
           /\ status' = r.status
           /\ db' = r.db
           /\ outdirs' = [outdirs EXCEPT ![url] = CleanDir(@, FALSE, clean)]
           /\ faults' = faults + Cost(clean)
  /\ UNCHANGED <<search_vars, pack_vars, catalog, crawling, reply, handled,
                 handler>>

\* line 330: the send_message of the except block of process_novel returns
\* and process_novel returns, or it raises out of process_novel to line 227
NovelErrorReported(i) ==
  /\ crawls[i].pc = "error_report"
  /\ \E outcome \in ReportOutcomes :
       LET c == crawls[i]
           r == IF outcome = "ok"
                  THEN [c |-> NovelDone(c, c.did), status |-> status]
                  ELSE [c |-> [Except(c).c EXCEPT !.did = c.did],
                        status |-> Except(c).status]
       IN  /\ crawls' = [crawls EXCEPT ![i] = r.c]
           /\ status' = r.status
  /\ UNCHANGED <<search_vars, pack_vars, catalog, outdirs, crawling, db, reply, handled,
                 handler, faults>>

\* lines 217 and 200-225: asyncio.sleep(1.5) is over, on to the next novel
Slept(i) ==
  /\ crawls[i].pc = "sleep"
  /\ LET r == NovelLoop(crawls[i], Tail(crawls[i].queue))
     IN  /\ crawls' = [crawls EXCEPT ![i] = r.c]
         /\ status' = r.status
  /\ UNCHANGED <<search_vars, pack_vars, catalog, outdirs, crawling, db, reply, handled,
                 handler, faults>>

\* lines 231-246: send_message of the except block returns or raises, then
\* the finally block runs up to its send_message
Report(i) ==
  /\ crawls[i].pc = "report"
  /\ \E outcome \in ReportOutcomes :
       LET r == GoFinally(crawls[i])
       IN  /\ crawls' = [crawls EXCEPT ![i] = r.c]
           /\ status' = r.status
  /\ UNCHANGED <<search_vars, pack_vars, catalog, outdirs, crawling, db, reply, handled,
                 handler, faults>>

\* lines 238-248: send_message of the finally block returns and line 248
\* resets the flag, or it raises and the coroutine ends there
Notify(i) ==
  /\ crawls[i].pc = "notify"
  /\ \E outcome \in Outcomes :
       /\ IF outcome = "ok"
            THEN /\ crawling' = FALSE
                 /\ crawls' = [crawls EXCEPT ![i] = Ended]
            ELSE /\ crawls' = [crawls EXCEPT ![i] = Ended]
                 /\ UNCHANGED crawling
       /\ faults' = faults + Cost(outcome)
  /\ UNCHANGED <<search_vars, pack_vars, catalog, outdirs, status, db, reply, handled,
                 handler>>

\* the coroutine has begun and has not ended
Active(c) == c.pc \notin {"thread", "ended"}

\* lines 443-459: /start up to the await of its reply_text. The application
\* handles one update at a time: no command is handled while start_command
\* waits at line 459.
StartCommand ==
  /\ handled < MaxCommands
  /\ handler = None
  /\ \E user \in Users :
       IF ~IsOwner(user)
         THEN /\ reply' = Reply(user, "start", "Sorry, only the bot owner can use this command.")
              /\ UNCHANGED handler
       ELSE IF crawling
         THEN /\ reply' = Reply(user, "start", "A crawl is already in progress.")
              /\ UNCHANGED handler
       ELSE /\ Len(crawls) < MaxCrawls
            /\ reply' = Reply(user, "start", "Crawl started.")
            /\ handler' = "start"
  /\ handled' = handled + 1
  /\ UNCHANGED <<search_vars, pack_vars, catalog, outdirs, crawling, status, crawls, db,
                 faults>>

\* lines 459-462: the reply_text of line 459 returns and the crawl thread is
\* started, or it raises and start_command ends without starting one
StartReplied ==
  /\ handler = "start"
  /\ \E outcome \in Outcomes :
       /\ crawls' = IF outcome = "ok" THEN Append(crawls, NewCrawl) ELSE crawls
       /\ faults' = faults + Cost(outcome)
  /\ handler' = None
  /\ UNCHANGED <<search_vars, pack_vars, catalog, outdirs, crawling, status, db, reply,
                 handled>>

\* lines 481-504: /stop
StopCommand ==
  /\ handled < MaxCommands
  /\ handler = None
  /\ \E user \in Users :
       IF ~IsOwner(user)
         THEN /\ reply' = Reply(user, "stop", "Sorry, only the bot owner can use this command.")
              /\ UNCHANGED <<crawling, status, crawls>>
       ELSE IF crawling
         THEN /\ crawling' = FALSE
              /\ status' = St("Stopping crawl...")
              /\ reply' = Reply(user, "stop", "Stopping crawl...")
              /\ crawls' = List([i \in 1..Len(crawls) |->
                              IF Active(crawls[i])
                                THEN [crawls[i] EXCEPT !.stop_seen = TRUE]
                                ELSE crawls[i]])
       ELSE /\ status' = St("Idle. Not currently crawling.")
            /\ crawling' = FALSE
            /\ reply' = Reply(user, "stop", "I am not currently crawling.")
            /\ UNCHANGED crawls
  /\ handled' = handled + 1
  /\ UNCHANGED <<search_vars, pack_vars, catalog, outdirs, db, handler, faults>>

\* lines 464-478: /status
StatusCommand ==
  /\ handled < MaxCommands
  /\ handler = None
  /\ \E user \in Users :
       reply' = IF ~IsOwner(user)
                  THEN Reply(user, "status", "Sorry, only the bot owner can use this command.")
                  ELSE Reply(user, "status", "Crawling and status")
  /\ handled' = handled + 1
  /\ UNCHANGED <<search_vars, pack_vars, catalog, outdirs, crawling, status, crawls, db,
                 handler, faults>>

NextBot ==
  \/ StartCommand
  \/ StartReplied
  \/ StopCommand
  \/ StatusCommand
  \/ \E i \in 1..Len(crawls) : CrawlBegin(i)
  \/ \E i \in 1..Len(crawls) : CrawlerInitialized(i)
  \/ \E i \in 1..Len(crawls) : PageCountFetched(i)
  \/ \E i \in 1..Len(crawls) : PageFetched(i)
  \/ \E i \in 1..Len(crawls) : NovelInitialized(i)
  \/ \E i \in 1..Len(crawls) : NovelInfoRead(i)
  \/ \E i \in 1..Len(crawls) : PackFinished(i)
  \/ \E i \in 1..Len(crawls) : NovelPacked(i)
  \/ \E i \in 1..Len(crawls) : NovelSent(i)
  \/ \E i \in 1..Len(crawls) : SendFailureReported(i)
  \/ \E i \in 1..Len(crawls) : PackFailureReported(i)
  \/ \E i \in 1..Len(crawls) : NovelErrorReported(i)
  \/ \E i \in 1..Len(crawls) : Slept(i)
  \/ \E i \in 1..Len(crawls) : Report(i)
  \/ \E i \in 1..Len(crawls) : Notify(i)

SpecBot == InitBot /\ [][NextBot]_vars

\* ------------------------------------------------------------ send_novel
\* send_novel of src/telegram_bot.py (lines 333-439), one call of it: each
\* action is what the coroutine does from one await to the next.

MaxFiles == 2

\* file names and novel titles, as code points: "T.epub", "T.EPUB", "x.json",
\* "T1", "T: " and ":"
fEpub == <<84, 46, 101, 112, 117, 98>>
fEPUB == <<84, 46, 69, 80, 85, 66>>
fJson == <<120, 46, 106, 115, 111, 110>>
FileNames == {fEpub, fEPUB, fJson}
NovelTitles == {<<84, 49>>, <<84, 58, 32>>, <<58>>}

\* what app.pack_epub may leave in the output directory, in os.listdir order
RECURSIVE Listings(_)
Listings(n) ==
  IF n = 0 THEN {<<>>}
  ELSE Listings(n - 1) \cup
       UNION {{Append(l, f) : f \in {g \in FileNames :
                                      \A j \in 1..Len(l) : l[j] # g}} :
              l \in {k \in Listings(n - 1) : Len(k) = n - 1}}

\* line 347: the characters of the title that are alphanumeric, ' ' or '_',
\* without trailing spaces
RECURSIVE KeepSafe(_)
KeepSafe(t) ==
  IF t = <<>> THEN <<>>
  ELSE IF IsAlnum(Head(t)) \/ Head(t) \in {32, 95}
    THEN <<Head(t)>> \o KeepSafe(Tail(t))
  ELSE KeepSafe(Tail(t))
RECURSIVE RStrip(_)
RStrip(t) ==
  IF t # <<>> /\ IsSpace(t[Len(t)]) THEN RStrip(SubSeq(t, 1, Len(t) - 1)) ELSE t
SafeTitle(t) == RStrip(KeepSafe(t))

\* line 367: filename.lower().endswith(".epub")
EndsWith(s, suffix) ==
  Len(s) >= Len(suffix) /\ SubSeq(s, Len(s) - Len(suffix) + 1, Len(s)) = suffix
IsEpubName(filename) == EndsWith(Lower(filename), <<46, 101, 112, 117, 98>>)

\* lines 366-368: the first name of the listing that is an EPUB, if any
RECURSIVE FirstEpub(_)
FirstEpub(listing) ==
  IF listing = <<>> THEN <<>>
  ELSE IF IsEpubName(Head(listing)) THEN <<Head(listing)>>
  ELSE FirstEpub(Tail(listing))

\* a call of send_novel that is about to begin, with what it will meet
InitSend ==
  /\ SearchIdle
  /\ BotIdle
  /\ binder = BinderIdle
  /\ send \in {[SendIdle EXCEPT !.title = t, !.pack = p, !.packed = l] :
                t \in NovelTitles, p \in {"ok", "raise"},
                l \in Listings(MaxFiles)}

\* lines 427-432: the file that was sent is removed, or the OSError of
\* os.remove is caught and logged
RECURSIVE Without(_, _)
Without(files, name) ==
  IF files = <<>> THEN <<>>
  ELSE IF Head(files) = name THEN Tail(files)
  ELSE <<Head(files)>> \o Without(Tail(files), name)

RemoveFile(s, remove) ==
  IF s.file_path # <<>> /\ s.dir_exists /\ remove = "ok"
    THEN [s EXCEPT !.files = Without(@, s.file_path[1])]
    ELSE s

\* lines 434-439: shutil.rmtree removes what is left and the directory, or
\* its exception is caught and logged and the entries it did not reach stay
RmTree(s, rmtree) ==
  IF ~s.dir_exists THEN s
  ELSE IF rmtree = 0 \/ rmtree > Len(s.files) + 1
    THEN [s EXCEPT !.files = <<>>, !.dir_exists = FALSE]
  ELSE [s EXCEPT !.files = SubSeq(@, rmtree, Len(@))]

\* what the finally block (lines 425-439) meets: os.remove(file_path) returns
\* or raises OSError; shutil.rmtree removes the entries of the directory one
\* after the other and then the directory (rmtree = 0), or raises at the
\* entry rmtree, or at the directory itself when rmtree is one more than the
\* number of entries
CleanOutcomes(s) ==
  {c \in [remove : {"ok", "raise"}, rmtree : 0..(MaxFiles + 1)] :
     c.rmtree <= Len(RemoveFile(s, c.remove).files) + 1}

\* lines 425-439: the finally block
KeepDirectory(s, clean) == s

Cleanup(s, clean) == RmTree(RemoveFile(s, clean.remove), clean.rmtree)

\* line 436 as the log tells it: shutil.rmtree returned (line 437), raised
\* (line 439), or was not called
RmTreeLog(s, clean) ==
  IF ~s.dir_exists THEN None
  ELSE IF RmTree(RemoveFile(s, clean.remove), clean.rmtree).dir_exists
    THEN "raise"
  ELSE "ok"

\* send_novel returns value, or an exception leaves it, through the finally
\* block
Leave(s, value, clean) ==
  [Cleanup(s, clean) EXCEPT !.pc = "returned", !.result = value,
                            !.rmtree = RmTreeLog(s, clean)]

\* lines 405-414: after the loop over the listing
AfterListing(s, clean) ==
  [s |-> Leave(s, IF s.epub_found THEN "True" ELSE "False", clean),
   status |-> IF ~s.epub_found /\ s.dir_exists
                THEN StFor("No EPUB for", s.title)
              ELSE IF ~s.dir_exists
                THEN StFor("Output path error for", s.title)
              ELSE status]

\* lines 339-362: up to the await of app.pack_epub in the executor
SendBegin ==
  /\ send.pc = "idle"
  /\ send' = [send EXCEPT !.pc = "packing", !.dir_exists = TRUE]
  /\ status' = StFor("Packing", send.title)
  /\ UNCHANGED <<search_vars, binder, catalog, outdirs, crawling, crawls, db,
                 reply, handled, handler, faults>>

\* lines 362-376 and 420-426: app.pack_epub returns or raises, having written
\* the files; then the listing is searched for an EPUB, up to the await of
\* send_document or of the send_message of the except block
Packed ==
  /\ send.pc = "packing"
  /\ LET s == [send EXCEPT !.files = send.packed]
         first == FirstEpub(s.files)
     IN  IF send.pack = "raise"
           THEN /\ send' = [s EXCEPT !.pc = "excepting"]
                /\ status' = StFor("Error packing/sending", send.title)
         ELSE IF first # <<>>
           THEN /\ send' = [s EXCEPT !.pc = "sending", !.file_path = first]
                /\ status' = StFor("Sending", first[1])
         ELSE \E clean \in CleanOutcomes(s) :
                /\ send' = AfterListing(s, clean).s
                /\ status' = AfterListing(s, clean).status
  /\ UNCHANGED <<search_vars, binder, catalog, outdirs, crawling, crawls, db,
                 reply, handled, handler, faults>>

\* lines 378-400: send_document returns (then lines 405-416) or raises (then
\* up to the await of the send_message of line 395)
Sent ==
  /\ send.pc = "sending"
  /\ \E outcome \in {"ok", "raise"} :
       IF outcome = "ok"
         THEN LET s == [send EXCEPT !.epub_found = TRUE,
                                    !.sent = Append(@, send.file_path[1])]
              IN  \E clean \in CleanOutcomes(s) :
                    /\ send' = AfterListing(s, clean).s
                    /\ status' = AfterListing(s, clean).status
         ELSE /\ send' = [send EXCEPT !.pc = "reporting"]
              /\ status' = StFor("Failed sending", send.file_path[1])
  /\ UNCHANGED <<search_vars, binder, catalog, outdirs, crawling, crawls, db,
                 reply, handled, handler, faults>>

\* lines 394-416: the send_message that reports the failure returns or raises
\* (its exception is caught on line 396), epub_found is False
Reported ==
  /\ send.pc = "reporting"
  /\ LET s == [send EXCEPT !.epub_found = FALSE]
     IN  \E clean \in CleanOutcomes(s) :
           /\ send' = AfterListing(s, clean).s
           /\ status' = AfterListing(s, clean).status
  /\ UNCHANGED <<search_vars, binder, catalog, outdirs, crawling, crawls, db,
                 reply, handled, handler, faults>>

\* lines 424-439: the send_message of the except block returns, and
\* send_novel returns False, or it raises and its exception leaves send_novel
Excepted ==
  /\ send.pc = "excepting"
  /\ \E outcome \in {"ok", "raise"} : \E clean \in CleanOutcomes(send) :
       send' = Leave(send, IF outcome = "ok" THEN "False" ELSE "raise", clean)
  /\ UNCHANGED <<search_vars, binder, catalog, outdirs, crawling, status,
                 crawls, db, reply, handled, handler, faults>>

NextSend == SendBegin \/ Packed \/ Sent \/ Reported \/ Excepted

SpecSend == InitSend /\ [][NextSend]_vars

\* ------------------------------------------------------------ EpubBinder
\* EpubBinder.process_and_write_epub of src/lncrawl/binders/epub.py (lines
\* 243-258) with bind_epub_book (lines 145-224) and write_epub (lines 231-241);
\* another thread may clear app.running while the chapters are bound.

MaxChapters == 3

\* what download_chapter_body does for a chapter: it returns a body ("ok"),
\* returns an empty body ("empty") or raises ("error")
ChapterKinds == {"ok", "empty", "error"}

\* crawler.chapters
ChapterLists == SeqsUpTo(ChapterKinds, MaxChapters)

\* lines 84-125: create_book reads the global names `re` (line 93, for a
\* novel with an author) and `datetime` (line 103, in every call); the module
\* binds neither of them (lines 5-25), so every call raises NameError
CreateBook == "raise"

\* a binder whose process_and_write_epub is about to be called
InitEpub ==
  /\ SearchIdle
  /\ BotIdle
  /\ send = SendIdle
  /\ binder \in {[BinderIdle EXCEPT !.chapters = cs] : cs \in ChapterLists}

\* lines 148-151: bind_epub_book with the book in its hands, before the first
\* round of the chapter loop. create_book as it stands never returns, so no
\* call of process_and_write_epub comes here: this is the state from which the
\* loop of lines 152-204 runs as it is written.
InitBind ==
  /\ SearchIdle
  /\ BotIdle
  /\ send = SendIdle
  /\ binder \in {[BinderIdle EXCEPT !.chapters = cs, !.pc = "binding", !.i = 1,
                                     !.total = Len(cs)] :
                  cs \in ChapterLists \ {<<>>}}

\* line 154: `if not self.app.crawler.app.running`
AppAlwaysRunning(b) == TRUE

AppRunning(b) == b.running

\* lines 168 and 202: how often pbar.update(1) runs for a chapter; the
\* `continue` of line 169 leaves the try statement through the finally block
Updates(kind) == IF kind = "empty" THEN 2 ELSE 1

\* lines 243-251 and 147-150: process_and_write_epub up to the first chapter
ProcessBegin ==
  /\ binder.pc = "idle"
  /\ binder' =
       IF binder.chapters = <<>>
         THEN [binder EXCEPT !.pc = "returned", !.result = "False"]
       ELSE IF CreateBook = "raise"
         THEN [binder EXCEPT !.pc = "returned", !.result = "raise"]
       ELSE [binder EXCEPT !.pc = "binding", !.i = 1,
                           !.total = Len(binder.chapters)]
  /\ UNCHANGED <<search_vars, bot_vars, send>>

\* app.running is cleared by the thread that stops the app, at any moment
\* before process_and_write_epub has returned
StopSignal ==
  /\ binder.pc \in {"idle", "binding", "downloading", "writing"}
  /\ binder.running
  /\ binder' = [binder EXCEPT !.running = FALSE]
  /\ UNCHANGED <<search_vars, bot_vars, send>>

\* lines 152-165 and 256-258: a round of the chapter loop begins with the
\* test of app.running; on the stop signal bind_epub_book returns None and
\* process_and_write_epub False, otherwise download_chapter_body is called
CheckRunning ==
  /\ binder.pc = "binding"
  /\ binder.i <= Len(binder.chapters)
  /\ binder' =
       IF ~AppRunning(binder)
         THEN [binder EXCEPT !.pc = "returned", !.result = "False"]
         ELSE [binder EXCEPT !.pc = "downloading"]
  /\ UNCHANGED <<search_vars, bot_vars, send>>

\* lines 165-202: download_chapter_body returns or raises and the round ends,
\* whatever app.running has become meanwhile
BindChapter ==
  /\ binder.pc = "downloading"
  /\ LET kind == binder.chapters[binder.i]
     IN  binder' = [binder EXCEPT
                      !.pc = "binding",
                      !.i = @ + 1,
                      !.n = @ + Updates(kind),
                      !.spine = IF kind = "ok" THEN Append(@, binder.i) ELSE @]
  /\ UNCHANGED <<search_vars, bot_vars, send>>

\* lines 204-224 and 252-254: the loop is over, bind_epub_book returns the
\* book and write_epub is called
BindFinish ==
  /\ binder.pc = "binding"
  /\ binder.i > Len(binder.chapters)
  /\ binder' = [binder EXCEPT !.pc = "writing"]
  /\ UNCHANGED <<search_vars, bot_vars, send>>

\* lines 231-241 and 254-255: epub.write_epub writes the file and
\* process_and_write_epub returns True, or it raises and write_epub raises on
WriteEpub ==
  /\ binder.pc = "writing"
  /\ \E outcome \in {"ok", "raise"} :
       binder' = IF outcome = "ok"
                   THEN [binder EXCEPT !.pc = "returned", !.written = TRUE,
                                       !.result = "True"]
                   ELSE [binder EXCEPT !.pc = "returned", !.result = "raise"]
  /\ UNCHANGED <<search_vars, bot_vars, send>>

NextEpub ==
  \/ ProcessBegin
  \/ StopSignal
  \/ CheckRunning
  \/ BindChapter
  \/ BindFinish
  \/ WriteEpub

SpecEpub == InitEpub /\ [][NextEpub]_vars

\* process_and_write_epub as it is, together with the chapter loop from its
\* entry
SpecBind == (InitEpub \/ InitBind) /\ [][NextEpub]_vars

\* -------------------------------------------------------------- claims

Returned == pc = "done"
EmptyInput == crawler_links = <<>> \/ user_input = <<>>
Searched == Returned /\ ~EmptyInput

TasksOf(c) == {f \in 1..Len(futures) : CrawlerType(futures[f].link) = c}
Resolved(c) == \E i \in 1..Len(crawler_links) : CrawlerType(crawler_links[i]) = c
Raises(c) ==
  \/ site[c].prepare # "ok"
  \/ site[c].raise_at \in 1..(Len(site[c].items) + 1)
  \/ \E k \in 1..Len(site[c].items) : site[c].items[k].kind = "baddict"
\* the hits of a source that are kept, as SearchResult values
ValidHits(c) ==
  {[title |-> Title(Lower(site[c].items[k].title)), url |-> site[c].items[k].url] :
     k \in {k \in 1..Len(site[c].items) :
              site[c].items[k].title # <<>> /\ site[c].items[k].url # <<>>}}
Elements(s) == {s[i] : i \in 1..Len(s)}
ProgressIs100 == search_progress[1] = 100 * search_progress[2]

\* C1: in one call every crawler class the links resolve to gets exactly one
\* task, however many links resolve to it, and no class without a link gets
\* one; the task of a class runs once and calls the class's search at most
\* once, exactly once when the crawler could be prepared; nothing is run a
\* second time after a failure.
C1_OneTaskPerCrawler ==
  /\ \A c \in Crawlers :
       /\ Cardinality(TasksOf(c)) <= 1
       /\ started[c] <= 1
       /\ searched[c] <= started[c]
       /\ (TasksOf(c) # {}) => Resolved(c)
  /\ (pc \in {"drain", "done"} /\ ~EmptyInput) =>
       \A c \in Crawlers : Resolved(c) => Cardinality(TasksOf(c)) = 1
  /\ Searched =>
       \A c \in Crawlers :
         /\ started[c] = IF Resolved(c) THEN 1 ELSE 0
         /\ searched[c] = IF Resolved(c) /\ site[c].prepare = "ok" THEN 1 ELSE 0

\* a finished search whose links name the two mirrors of one class, with a
\* task that failed
C1_Witness ==
  /\ Searched
  /\ \E i, j \in 1..Len(crawler_links) :
       crawler_links[i] = "https://a.com/" /\ crawler_links[j] = "https://a.net/"
  /\ Raises("CrawlerA")
  /\ started["CrawlerA"] = 1

\* C2: no error raised in a source's search (preparing the crawler, iterating
\* its hits, converting a hit) leaves search_novels, and when the call returns
\* every submitted task has run to completion and has been accounted for.
C2_ErrorsIsolated ==
  /\ escaped = None
  /\ pc # "raised"
  /\ Searched =>
       /\ \A f \in 1..Len(futures) : futures[f].state = "FINISHED"
       /\ progress = Len(futures)

\* a finished search with a source that could not be prepared, a source with a
\* malformed hit and a healthy source
C2_Witness ==
  /\ Searched
  /\ Len(futures) = 3
  /\ \E c \in Crawlers : site[c].prepare # "ok"
  /\ \E c \in Crawlers : site[c].prepare = "ok" /\ Raises(c)
  /\ \E c \in Crawlers : ~Raises(c) /\ ValidHits(c) # {}

DrainOver == pc = "done" \/ (pc = "drain" /\ progress = total_futures)

\* C3: when a source raises, the drain loop still ends with progress 100 and
\* the accumulated results hold every valid hit of every source that did not
\* raise.
C3_HealthySourcesKept ==
  (DrainOver /\ ~EmptyInput /\ \E c \in Crawlers : Resolved(c) /\ Raises(c)) =>
     /\ ProgressIs100
     /\ \A c \in Crawlers :
          (Resolved(c) /\ ~Raises(c)) => ValidHits(c) \subseteq Elements(all_results)

\* a finished search with one source that raises and two that return hits
C3_Witness ==
  /\ Searched
  /\ Cardinality({c \in Crawlers : Resolved(c) /\ Raises(c)}) = 1
  /\ Cardinality({c \in Crawlers : Resolved(c) /\ ~Raises(c) /\ ValidHits(c) # {}}) = 2

\* C4 (as claimed): once the call on non-empty input has returned, all the
\* submitted tasks have completed and app.search_progress is exactly 100, for
\* every number of tasks, zero included.
C4_ProgressReaches100 ==
  Searched => ProgressIs100

\* C5 (as claimed): after a call with an empty query or no links the result
\* list is empty and the progress is 100.
C5_EmptyInputProgress100 ==
  (Returned /\ EmptyInput) => (search_results = <<>> /\ ProgressIs100)

\* C6: with an empty query or no links, search_novels submits no task, runs
\* no crawler and raises nothing.
C6_EmptyInputNoWork ==
  EmptyInput =>
    /\ futures = <<>>
    /\ \A c \in Crawlers : started[c] = 0 /\ searched[c] = 0
    /\ escaped = None
    /\ pc \in {"start", "done"}

\* a call with an empty query and links that resolve has returned
C6_Witness ==
  /\ Returned
  /\ user_input = <<>>
  /\ \E i \in 1..Len(crawler_links) : CrawlerType(crawler_links[i]) # None


\* C7 (as claimed): the final list depends only on the results collected and
\* the query, so every completion order yields the list that the completion
\* of the tasks in submission order yields.
C7_OrderIndependent ==
  Searched =>
    search_results =
      Combine(Concat([f \in 1..Len(futures) |-> futures[f].value]), user_input)

\* C8: in the final list a group with more members precedes every group with
\* fewer members, whatever their similarity to the query.
C8_LargerGroupFirst ==
  Searched =>
    \A i, j \in 1..Len(search_results) :
      Len(search_results[i].novels) > Len(search_results[j].novels) => i < j

\* the final list starts with a group of two and goes on with a singleton
\* whose title is more similar to the query
C8_Witness ==
  /\ Searched
  /\ Len(search_results) = 2
  /\ Len(search_results[1].novels) = 2
  /\ Len(search_results[2].novels) = 1
  /\ RatioLess(Ratio(search_results[1].title, user_input),
               Ratio(search_results[2].title, user_input))

\* the group of the final list at i is a singleton made of a hit whose title,
\* as the source returned it, is the query
ExactHitGroup(i) ==
  /\ Len(search_results[i].novels) = 1
  /\ \E c \in Crawlers : \E k \in 1..Len(site[c].items) :
       /\ Resolved(c) /\ ~Raises(c)
       /\ site[c].items[k].title = user_input
       /\ site[c].items[k].url = search_results[i].novels[1].url

\* C9 (as claimed): among groups of equal size the more similar title comes
\* first, and of two singleton groups the one whose hit title is exactly the
\* query comes first.
C9_ExactMatchFirst ==
  Searched =>
    \A i, j \in 1..Len(search_results) :
      /\ ( /\ Len(search_results[i].novels) = Len(search_results[j].novels)
           /\ RatioLess(Ratio(search_results[j].title, user_input),
                        Ratio(search_results[i].title, user_input)) ) => i < j
      /\ ( /\ i # j
           /\ ExactHitGroup(i)
           /\ Len(search_results[j].novels) = 1 ) => i < j

\* C10 (as claimed): two groups that tie on size and on similarity are in
\* ascending order of their ids.
C10_TieById ==
  Searched =>
    \A i, j \in 1..Len(search_results) :
      ( /\ i < j
        /\ Len(search_results[i].novels) = Len(search_results[j].novels)
        /\ RatioEq(Ratio(search_results[i].title, user_input),
                   Ratio(search_results[j].title, user_input)) )
      => StrLess(search_results[i].id, search_results[j].id)


Count(s, x) == Cardinality({i \in 1..Len(s) : s[i] = x})
MinOf(a, b) == IF a < b THEN a ELSE b

\* C11: every combined result has the slug of its members' titles as id, has
\* as members exactly the accumulated results with that slug, in ascending
\* order of url, and has the title of its first member, which is a member
\* with the smallest url.
C11_CombinedResultShape ==
  Searched =>
    \A i \in 1..Len(search_results) :
      LET r == search_results[i]
          n == Len(r.novels)
      IN  /\ n >= 1
          /\ \A a \in 1..n : Slugify(r.novels[a].title) = r.id
          /\ \A a \in 1..Len(all_results) :
               Slugify(all_results[a].title) = r.id =>
                 Count(r.novels, all_results[a]) = Count(all_results, all_results[a])
          /\ n = Cardinality({a \in 1..Len(all_results) :
                                Slugify(all_results[a].title) = r.id})
          /\ \A a, b \in 1..n : a < b => ~StrLess(r.novels[b].url, r.novels[a].url)
          /\ r.title = r.novels[1].title

\* a group of the final list whose members arrived in descending url order
C11_Witness ==
  /\ Searched
  /\ \E i \in 1..Len(search_results) : Len(search_results[i].novels) = 2
  /\ \E a, b \in 1..Len(all_results) :
       /\ a < b
       /\ Slugify(all_results[a].title) = Slugify(all_results[b].title)
       /\ StrLess(all_results[b].url, all_results[a].url)

\* C12: after a search that submitted a task the final list has at most 10
\* entries and is the first 10, or all if fewer, of the sorted list of groups.
C12_FirstTenOfSorted ==
  (Searched /\ futures # <<>>) =>
    LET full == SortByKey(Processed(GroupByKey(all_results, <<>>)), user_input)
    IN  /\ Len(search_results) <= 10
        /\ search_results = SubSeq(full, 1, MinOf(10, Len(full)))

\* eleven groups were built and ten are in the final list
C12_Witness ==
  /\ Searched
  /\ Len(GroupByKey(all_results, <<>>)) = 11
  /\ Len(search_results) = 10

\* C13: no combined result has an id of two characters or fewer, and no hit
\* whose title has such a slug is a member of any combined result, however
\* many sources returned it.
C13_NoShortIds ==
  Searched =>
    \A i \in 1..Len(search_results) :
      /\ Len(search_results[i].id) > 2
      /\ \A a \in 1..Len(search_results[i].novels) :
           Len(Slugify(search_results[i].novels[a].title)) > 2

\* two sources returned a title with a two-character slug, and the final
\* list is not empty
C13_Witness ==
  /\ Searched
  /\ search_results # <<>>
  /\ Cardinality({a \in 1..Len(all_results) :
                    Len(Slugify(all_results[a].title)) = 2}) = 2

NonEmptyFields(r) == r.title # <<>> /\ r.url # <<>>

\* C14: every result a task returns, every accumulated result and every
\* member of a combined result has a non-empty title and a non-empty url.
C14_TitleAndUrlNonEmpty ==
  /\ \A f \in 1..Len(futures) :
       \A k \in 1..Len(futures[f].value) : NonEmptyFields(futures[f].value[k])
  /\ \A a \in 1..Len(all_results) : NonEmptyFields(all_results[a])
  /\ \A i \in 1..Len(search_results) :
       \A a \in 1..Len(search_results[i].novels) :
         NonEmptyFields(search_results[i].novels[a])

\* a task has returned results from a source that also yielded a hit with an
\* empty title or url
C14_Witness ==
  \E f \in 1..Len(futures) :
    /\ futures[f].state = "FINISHED"
    /\ futures[f].value # <<>>
    /\ \E k \in 1..Len(site[CrawlerType(futures[f].link)].items) :
         LET item == site[CrawlerType(futures[f].link)].items[k]
         IN  item.title = <<>> \/ item.url = <<>>


Waiting(f) == f <= Len(futures) /\ futures[f].state = "PENDING"
Begun(f) == f <= Len(futures) /\ futures[f].state # "PENDING"

\* a worker is free for the oldest waiting task: a task has finished, or a
\* running task is one whose source answers
SlotComing ==
  \E g \in 1..Len(futures) :
    \/ futures[g].state = "FINISHED"
    \/ futures[g].state = "RUNNING" /\ site[CrawlerType(futures[g].link)].answers

\* C15: never more than 10 tasks run at a time; a task beyond the tenth has
\* begun only when a task submitted before it has finished; and such a task,
\* while it waits, is started eventually once a running task finishes.
C15_AtMostTenRunning ==
  /\ [](Cardinality(Running) <= 10)
  /\ [](\A f \in (max_workers + 1)..Len(futures) :
          Begun(f) => \E g \in 1..(f - 1) : futures[g].state = "FINISHED")
  /\ \A f \in (max_workers + 1)..Len(PoolLinks) :
       (Waiting(f) /\ SlotComing) ~> Begun(f)

\* one of the first ten tasks has finished and the eleventh, which waited
\* while the ten ran, runs with the nine others
C15_Witness ==
  /\ Len(futures) = 11
  /\ futures[11].state = "RUNNING"
  /\ Cardinality(Running) = 10
  /\ \E g \in 1..10 : futures[g].state = "FINISHED"

TaskValues == Concat([f \in 1..Len(futures) |-> futures[f].value])

\* C16: no step of a worker thread changes the accumulated list, the completed
\* count or the progress value; and for every order of completion, once the
\* drain loop is over every task is finished, the completed count is the
\* number of submitted tasks and the accumulated list holds each returned
\* result as many times as the tasks returned it.
C16_SingleWriter ==
  /\ [][WorkerStep => UNCHANGED <<all_results, progress, search_progress>>]_vars
  /\ [](DrainOver =>
         /\ \A f \in 1..Len(futures) : futures[f].state = "FINISHED"
         /\ progress = Len(futures)
         /\ Len(all_results) = Len(TaskValues)
         /\ \A x \in Elements(TaskValues) \cup Elements(all_results) :
              Count(all_results, x) = Count(TaskValues, x))
\* three tasks returned results and were drained in another order than submitted
C16_Witness ==
  /\ Searched
  /\ Len(futures) = 3
  /\ \A f \in 1..3 : futures[f].value # <<>>
  /\ all_results # TaskValues

\* the source's search raises at item k, after it yielded a hit that is kept
RaisesAt(c, k) ==
  \/ site[c].raise_at = k
  \/ k <= Len(site[c].items) /\ site[c].items[k].kind = "baddict"
RaisesPartWay(c) ==
  /\ site[c].prepare = "ok"
  /\ \E k \in 2..(Len(site[c].items) + 1) :
       /\ RaisesAt(c, k)
       /\ \A j \in 1..(k - 1) : ~RaisesAt(c, j)
       /\ \E j \in 1..(k - 1) :
            site[c].items[j].title # <<>> /\ site[c].items[j].url # <<>>

\* C17: the task of a source that raises after it yielded valid hits ends
\* with an empty list, and once the drain loop is over the accumulated list
\* holds none of that source's hits (other than hits another source returned).
C17_PartialHitsDiscarded ==
  \A c \in Crawlers : RaisesPartWay(c) =>
    /\ \A f \in TasksOf(c) : futures[f].value = <<>> /\ futures[f].exc = None
    /\ DrainOver =>
         \A x \in ValidHits(c) \cap Elements(all_results) :
           \E d \in Crawlers \ {c} : ~Raises(d) /\ Resolved(d) /\ x \in ValidHits(d)
\* a source raised part-way, its task was drained, and other results were kept
C17_Witness ==
  /\ Searched
  /\ all_results # <<>>
  /\ \E c \in Crawlers : RaisesPartWay(c) /\ TasksOf(c) # {} /\ site[c].raise_at > 1

\* the position in app.crawler_links of the first link that resolves to c
FirstLinkOf(c) ==
  CHOOSE i \in 1..Len(crawler_links) :
    /\ CrawlerType(crawler_links[i]) = c
    /\ \A j \in 1..(i - 1) : CrawlerType(crawler_links[j]) # c

\* C18: no task is ever submitted for a link that resolves to no crawler and
\* no error leaves the search; every task is the one of the first link, in
\* the order of the input, that resolves to its crawler, and when the search
\* has returned every crawler resolved has exactly that one task.
C18_FirstLinkWins ==
  /\ escaped = None
  /\ \A f \in 1..Len(futures) :
       LET c == CrawlerType(futures[f].link)
       IN  /\ c # None
           /\ futures[f].link = crawler_links[FirstLinkOf(c)]
           /\ futures[f].hostname = HostnameOf[crawler_links[FirstLinkOf(c)]]
  /\ Searched =>
       \A c \in Crawlers : Resolved(c) =>
         \E f \in 1..Len(futures) :
           /\ TasksOf(c) = {f}
           /\ futures[f].link = crawler_links[FirstLinkOf(c)]
\* two different links of one crawler and a link of no crawler were given
\* and the search returned with the one task of the earlier link
C18_Witness ==
  /\ Searched
  /\ \E i, j, k \in 1..Len(crawler_links) :
       /\ i < j
       /\ crawler_links[i] # crawler_links[j]
       /\ CrawlerType(crawler_links[i]) = CrawlerType(crawler_links[j])
       /\ CrawlerType(crawler_links[i]) # None
       /\ CrawlerType(crawler_links[k]) = None
       /\ Len(futures) = 1
       /\ futures[1].link = crawler_links[i]

\* app.search_progress is the fraction n / d
ProgressEquals(n, d) == search_progress[1] * d = n * search_progress[2]

\* C19: with N > 0 tasks, from the start of the drain loop on the progress
\* value is exactly 100 * k / N for the number k of completions processed;
\* k goes up by one at a time from 0 to N, so the value only grows, and it
\* never leaves the range 0..100.
C19_ProgressIsExactShare ==
  /\ []((pc \in {"drain", "done"} /\ total_futures > 0) =>
          /\ progress \in 0..total_futures
          /\ ProgressEquals(100 * progress, total_futures))
  /\ [](/\ search_progress[2] > 0
        /\ 0 <= search_progress[1]
        /\ search_progress[1] <= 100 * search_progress[2])
  /\ [][/\ pc = "submit" /\ pc' = "drain" => progress' = 0
        /\ progress' # progress =>
             (pc = "submit" \/ (pc = "drain" /\ progress' = progress + 1))
        /\ search_progress[1] * search_progress'[2]
             <= search_progress'[1] * search_progress[2]]_vars
\* one of three tasks has been processed and the search has not returned
C19_Witness ==
  /\ pc = "drain"
  /\ total_futures = 3
  /\ progress = 1
  /\ ProgressEquals(100, 3)

\* line 110 is executed: search_novels assigns app.search_results
AssignsResults == pc = "drain" /\ pc' = "done"

\* C20 (as claimed): app.search_results changes only in the step of line 110,
\* that step is taken only when no task of the session is pending or running,
\* and in the state it leaves the progress is 100.
C20_ResultsOnlyAtProgress100 ==
  [][/\ search_results' # search_results => AssignsResults
     /\ AssignsResults =>
          /\ \A f \in 1..Len(futures) : futures[f].state = "FINISHED"
          /\ search_progress'[1] = 100 * search_progress'[2]]_vars

\* the number of steps search_novels and its workers can still take, at most
StepsLeft ==
  (IF pc = "start" THEN 1 ELSE 0)
  + (IF pc \in {"start", "submit"}
       THEN 5 * (Len(crawler_links) + 1 - link_i) + 1 ELSE 0)
  + 3 * Cardinality({f \in 1..Len(futures) : futures[f].state = "PENDING"})
  + Cardinality(Running)
  + Cardinality({f \in Running : ~futures[f].called})
  + (Len(futures) - progress)
  + (IF pc = "done" THEN 0 ELSE 1)

\* some step of the search is possible: the dispatcher can go on, or a worker
\* can take or finish a task
CanStep ==
  \/ pc = "drain" /\ progress = total_futures
  \/ ENABLED Call \/ ENABLED SubmitLink \/ ENABLED BeginDrain
  \/ ENABLED DrainOne
  \/ ENABLED StartTask
  \/ ENABLED CallSearch
  \/ ENABLED FinishTask

\* C21 (as claimed): while search_novels has not returned a step is possible
\* and every step brings the return nearer, so with fair scheduling the call
\* returns; when a call on a query and links has returned, every task has
\* finished and the progress is 100, for every number of tasks.
C21_TerminatesAt100 ==
  /\ [](pc # "done" => CanStep)
  /\ [][StepsLeft' < StepsLeft]_vars
  /\ [](Searched =>
          /\ \A f \in 1..Len(futures) : futures[f].state = "FINISHED"
          /\ search_progress[1] = 100 * search_progress[2])
\* the part of C21 that holds: no deadlock, every step brings the return
\* nearer, and with one task or more the progress ends at 100
C21_Terminates ==
  /\ [](pc # "done" => CanStep)
  /\ [][StepsLeft' < StepsLeft]_vars
  /\ []((Searched /\ futures # <<>>) => ProgressIs100)

\* the task submitted first has not finished and all the others have
FirstStillRunning ==
  /\ pc = "drain"
  /\ Len(futures) >= 2
  /\ futures[1].state # "FINISHED"
  /\ \A f \in 2..Len(futures) : futures[f].state = "FINISHED"
OtherValues == Concat([f \in 1..(Len(futures) - 1) |-> futures[f + 1].value])

\* C22 (as claimed): while the first submitted of N tasks has not finished
\* and the N-1 others have, the accumulated list already holds the results of
\* those N-1 tasks and the progress already is 100 * (N-1) / N.
C22_AlreadyAccounted ==
  FirstStillRunning =>
    /\ Len(all_results) = Len(OtherValues)
    /\ \A x \in Elements(OtherValues) \cup Elements(all_results) :
         Count(all_results, x) = Count(OtherValues, x)
    /\ ProgressEquals(100 * (Len(futures) - 1), Len(futures))

\* C22 (amended): while the first submitted of N tasks has not finished and
\* the others have, the drain loop is not held up by it: with k of the N-1
\* completions processed the progress is 100 * k / N, while k < N-1 the loop
\* can process another one, and once k = N-1 the accumulated list holds exactly
\* the results of the N-1 tasks and the progress is 100 * (N-1) / N.
C22_CompletionOrder ==
  FirstStillRunning =>
    /\ progress <= Len(futures) - 1
    /\ ProgressEquals(100 * progress, Len(futures))
    /\ progress < Len(futures) - 1 => ENABLED DrainOne
    /\ progress = Len(futures) - 1 =>
         /\ Len(all_results) = Len(OtherValues)
         /\ \A x \in Elements(OtherValues) \cup Elements(all_results) :
              Count(all_results, x) = Count(OtherValues, x)

\* two of three tasks are accounted for while the first has not finished
C22_Witness ==
  /\ FirstStillRunning
  /\ Len(futures) = 3
  /\ progress = 2
  /\ Len(all_results) >= 2

\* C23: whenever a crawler's search_novel has been invoked by a task, the
\* crawler instance had can_use_browser set to False at that moment; a crawler
\* that could not be prepared is never searched.
C23_BrowserDisabledBeforeSearch ==
  \A c \in Crawlers :
    /\ searched[c] > 0 => searched_browser[c] = <<FALSE>>
    /\ searched[c] = 0 => searched_browser[c] = <<>>
\* a task has searched a crawler that was prepared with browser use enabled
C23_Witness ==
  \E f \in 1..Len(futures) :
    /\ futures[f].state = "FINISHED"
    /\ PrepareCrawler(futures[f].link).can_use_browser
    /\ searched[CrawlerType(futures[f].link)] = 1
    /\ searched_browser[CrawlerType(futures[f].link)] = <<FALSE>>

\* the groups built on lines 84-103, before they are sorted and cut to ten
Groups == Processed(GroupByKey(all_results, <<>>))
Kept(x) == x.title # <<>> /\ Len(Slugify(x.title)) > 2

\* C24: the groups built from the accumulated results partition the results
\* that are kept: no two groups have the same id, no group is empty, every
\* member of a group is a kept result whose title has the group's id as slug,
\* and every kept result is in the group of its slug as often as it was
\* accumulated, so in exactly one group.
C24_GroupsPartitionKept ==
  Searched =>
    LET groups == Groups
        members == [g \in 1..Len(groups) |-> Elements(groups[g].novels)]
    IN  /\ \A g, h \in 1..Len(groups) : groups[g].id = groups[h].id => g = h
        /\ \A g \in 1..Len(groups) :
             /\ groups[g].novels # <<>>
             /\ \A x \in members[g] :
                  /\ Kept(x)
                  /\ Slugify(x.title) = groups[g].id
                  /\ Count(groups[g].novels, x) = Count(all_results, x)
        /\ \A x \in Elements(all_results) : Kept(x) =>
             Cardinality({g \in 1..Len(groups) : x \in members[g]}) = 1
        /\ Len(Concat([g \in 1..Len(groups) |-> groups[g].novels]))
             = Cardinality({a \in 1..Len(all_results) : Kept(all_results[a])})
\* more groups than the final list takes, one of two members, and a result
\* that is in no group
C24_Witness ==
  /\ Searched
  /\ Len(Groups) > Len(search_results)
  /\ \E g \in 1..Len(Groups) : Len(Groups[g].novels) = 2
  /\ \E x \in Elements(all_results) : ~Kept(x)

\* the coroutine of crawl i ends in this step
Ends(i) == crawls[i].pc # "ended" /\ crawls'[i].pc = "ended"

\* C25: whenever a crawl_and_send ends, bot_data['crawling'] is False
\* afterwards, also when the send_message of the finally block raises.
C25_FlagClearedAtEnd ==
  [][\A i \in 1..Len(crawls) : Ends(i) => crawling' = FALSE]_vars

\* the crawls that were launched by /start and have not ended
Launched == {i \in 1..Len(crawls) : crawls[i].pc # "ended"}

\* C26: at most one crawl is launched and not ended at any time, whatever the
\* interleaving of /start with the crawl thread and the event loop.
C26_AtMostOneCrawl == Cardinality(Launched) <= 1

\* crawl i goes on to another page or another novel in this step
GoesOn(i) ==
  /\ crawls'[i].pc \in {"fetching", "processing"}
  /\ crawls'[i].pc # crawls[i].pc

\* C27: a crawl that was active when /stop was accepted starts no further
\* page and no further novel, whatever commands arrive after the /stop.
C27_StoppedCrawlStartsNothing ==
  [][\A i \in 1..Len(crawls) : crawls[i].stop_seen => ~GoesOn(i)]_vars

\* the finally block of crawl i has set 'Idle. Crawl finished.' and is
\* sending 'Finished crawling all pages.'
ReportsFinished(i) ==
  /\ crawls[i].pc = "notify"
  /\ crawls[i].msg = "Finished crawling all pages."

\* C28: a crawl reports that it finished only if no exception reached its
\* except block and no /stop was accepted while it ran.
C28_FinishedOnlyIfNatural ==
  \A i \in 1..Len(crawls) :
    ReportsFinished(i) => ~crawls[i].failed /\ ~crawls[i].stop_seen

\* process_novel of crawl i, called for novel n, is over in this step
ProcessingOver(i, n) ==
  /\ crawls[i].pc \in InProcessNovel
  /\ crawls'[i].pc \notin InProcessNovel
  /\ Head(crawls[i].queue).href = n

\* a record of novel n is inserted, or the chapter_count of one changes
Inserted(n) == Len(db'[n]) > Len(db[n])
CountChanged(n) ==
  \E k \in 1..Len(db[n]) :
    k <= Len(db'[n]) /\ db'[n][k].chapter_count # db[n][k].chapter_count

\* C29: a record is inserted or a stored chapter_count changed only by a
\* process_novel whose send_novel returned True for that novel; when
\* send_novel returned False or raised, the records of the novel stay as they
\* were.
C29_RecordOnlyIfSent ==
  [][\A n \in Novels :
       /\ (Inserted(n) \/ CountChanged(n)) =>
            \E i \in 1..Len(crawls) :
              ProcessingOver(i, n) /\ crawls'[i].did = "sent"
       /\ \A i \in 1..Len(crawls) :
            ProcessingOver(i, n) /\ crawls'[i].did \in {"not_sent", "send_error"}
              => db'[n] = db[n]]_vars
\* send_novel has returned False for a novel that is not in the database
C29_Witness ==
  \E i \in 1..Len(crawls) :
    /\ crawls[i].pc = "sleep"
    /\ crawls[i].did = "not_sent"
    /\ db[Head(crawls[i].queue).href] = <<>>

\* the database holds novel n with at least the chapters the site has
StoredUpToDate(n) ==
  db[n] # <<>> /\ catalog.chapters[n] <= db[n][1].chapter_count

\* crawl i calls send_novel for novel n in this step (line 280 or 309)
CallsSendNovel(i, n) ==
  /\ crawls[i].pc = "reading"
  /\ crawls'[i].pc = "packing"
  /\ Head(crawls[i].queue).href = n

\* C30: a novel that the database holds with a chapter_count that is not
\* below the site's is not given to send_novel, and a process_novel that ends
\* for such a novel has sent nothing and has changed at most last_checked and
\* status of the novel's records and nothing of the other novels.
C30_UpToDateNotSent ==
  [][\A i \in 1..Len(crawls) : \A n \in Novels :
       /\ StoredUpToDate(n) => ~CallsSendNovel(i, n)
       /\ StoredUpToDate(n) /\ ProcessingOver(i, n) =>
            /\ crawls'[i].did \in {"checked", "error"}
            /\ Len(db'[n]) = Len(db[n])
            /\ \A k \in 1..Len(db[n]) :
                 db'[n][k] = [db[n][k] EXCEPT !.last_checked = db'[n][k].last_checked,
                                              !.status = db'[n][k].status]
            /\ \A m \in Novels \ {n} : db'[m] = db[m]]_vars

\* the await of process_novel in crawl i is over in this step
ProcessNovelOver(i) ==
  crawls[i].pc \in InProcessNovel /\ crawls'[i].pc \notin InProcessNovel

\* C31: whatever happens inside process_novel, the crawl goes on to the sleep
\* of line 217 and the rest of the page: no exception of process_novel reaches
\* the except block of crawl_and_send.
C31_NovelErrorContained ==
  [][\A i \in 1..Len(crawls) :
       ProcessNovelOver(i) =>
         crawls'[i].pc = "sleep" /\ ~crawls'[i].failed]_vars

\* a handler has answered a command that did not come from the owner
OtherUsersCommand == handled' = handled + 1 /\ ~reply'.by_owner

\* C32: a /start, /status or /stop that does not come from the owner leaves
\* bot_data['crawling'] and bot_data['status'] as they were, launches no
\* crawl and marks no crawl as stopped; it is answered with the refusal.
C32_OtherUsersChangeNothing ==
  [][OtherUsersCommand =>
       /\ crawling' = crawling
       /\ status' = status
       /\ crawls' = crawls
       /\ reply'.text = "Sorry, only the bot owner can use this command."]_vars
\* a /stop of another user was refused while a crawl was processing a novel
C32_Witness ==
  /\ reply.cmd = "stop"
  /\ ~reply.by_owner
  /\ crawling
  /\ \E i \in 1..Len(crawls) : crawls[i].pc = "processing"

\* C33 (as claimed): when send_novel has returned or raised, its output
\* directory does not exist any more; it returned True only if app.pack_epub
\* returned, the directory held an EPUB and send_document delivered the first
\* one found.
C33_TrueOnlyIfSentAndCleaned ==
  send.pc = "returned" =>
    /\ ~send.dir_exists
    /\ send.files = <<>>
    /\ send.result = "True" =>
         /\ send.pack = "ok"
         /\ FirstEpub(send.packed) # <<>>
         /\ send.sent = FirstEpub(send.packed)

\* C33 (amended): when send_novel has returned or raised, its output directory
\* does not exist any more unless shutil.rmtree raised, and then the directory
\* is still there; it returned True only if app.pack_epub returned, the
\* directory held an EPUB and send_document delivered the first one found.
C33_TrueOnlyIfSentCleanedUnlessRmtreeRaised ==
  send.pc = "returned" =>
    /\ send.rmtree # "raise" => ~send.dir_exists /\ send.files = <<>>
    /\ send.rmtree = "raise" => send.dir_exists
    /\ send.result = "True" =>
         /\ send.pack = "ok"
         /\ FirstEpub(send.packed) # <<>>
         /\ send.sent = FirstEpub(send.packed)
\* send_novel returned True for a directory whose first file was not an EPUB,
\* and the directory is gone
C33_Witness ==
  /\ send.pc = "returned"
  /\ send.result = "True"
  /\ Len(send.packed) = 2
  /\ ~IsEpubName(send.packed[1])
  /\ send.sent = <<send.packed[2]>>
  /\ send.rmtree = "ok"
  /\ ~send.dir_exists

\* a round of the chapter loop begins in this step: line 154 reads app.running
RoundBegins ==
  /\ binder.pc = "binding"
  /\ binder.i <= Len(binder.chapters)
  /\ binder'.pc # binder.pc

\* C34: a round of the chapter loop that begins while app.running is False
\* ends the binding: process_and_write_epub returns False and no file has been
\* written; process_and_write_epub has returned True only if write_epub wrote
\* the file, and a file is written in no other case.
C34_StopAbortsBinding ==
  /\ [](binder.pc = "returned" => (binder.result = "True" <=> binder.written))
  /\ [](binder.pc # "returned" => ~binder.written)
  /\ [][RoundBegins /\ ~binder.running =>
          /\ binder'.pc = "returned"
          /\ binder'.result = "False"
          /\ ~binder'.written]_vars
\* the stop signal came after two of three chapters were bound
C34_Witness ==
  /\ binder.pc = "returned"
  /\ binder.result = "False"
  /\ ~binder.running
  /\ Len(binder.chapters) = 3
  /\ Len(binder.spine) = 2

====
